---- MODULE Spec2Model ----
(***************************************************************************)
(* The SCD Type 2 loader of the CDC historical warehouse platform          *)
(* (src/src/warehouse/scd2_loader.py): the table dim_orders_history with   *)
(* its constraints, the transaction of the loader's one connection, the    *)
(* ledger file .processed_files, the batch artifacts of data/cdc_logs and  *)
(* the load run that applies them; and the extractor                      *)
(* (src/src/cdc/log_extractor.py): the source table orders, the watermark  *)
(* file and the extraction cycle.                                          *)
(*                                                                         *)
(* Timestamps are instants 1..MaxTime; 0 stands for SQL NULL in valid_to.  *)
(* A timestamp text of an artifact is an instant together with the fact    *)
(* whether the text carries a UTC offset ("+00:00" or "Z"); the session    *)
(* time zone of the warehouse is UTC, so a TIMESTAMP column keeps the      *)
(* instant and drops the offset.                                           *)
(***************************************************************************)
EXTENDS Integers, Sequences, FiniteSets, TLC

VARIABLES
    table,      \* committed rows of dim_orders_history
    work,       \* the rows as the loader's open transaction sees them
    txfailed,   \* the open transaction is in the aborted state
    seq,        \* last value handed out by the BIGSERIAL sequence
    files,      \* data/cdc_logs: artifact name -> its content, if present
    ledger,     \* lines of .processed_files, as <<name, batch_id>>
    pc,         \* position of the loader
    todo,       \* load_change_logs: unprocessed_files still to visit
    curFile,    \* _process_batch_file: the artifact being applied
    batchId,    \* _process_batch_file: batch_id of that artifact
    queue,      \* _process_batch_file: effective changes still to apply
    failedBatches, \* load_change_logs: failed_batches of the run
    missed,     \* which ledger reads of the run in progress raised IOError
    driver,     \* the psycopg2 of the build, see Drivers
    deleteClosed, \* history: surrogate keys of the rows a DELETE closed
    applied,    \* history: artifacts applied in full, the table unchanged since
    orders,     \* operational_db: the rows of the source table orders
    clock,      \* the wall clock, also CURRENT_TIMESTAMP of operational_db
    wmfile,     \* content of data/cdc_logs/.watermark
    logs,       \* the artifacts CDCLogExtractor has written (their records)
    cycle,      \* history: what the last extraction cycle did
    owed,       \* history: rows that failed detections would have returned
    high,       \* history: the greatest watermark stored so far
    conn,       \* per component: the state of _connect at startup
    shutdown,   \* shutdown_handler.should_shutdown of the loader
    loaders,    \* two loader instances on one warehouse: their transactions
    metadata,   \* pipeline_metadata: the row of the latest load run
    orders_dim  \* committed rows of orders_dim, the table of ChangeProcessor

\* The loader's side and the extractor's side of the state.
lvars == <<table, work, txfailed, seq, files, ledger, pc, todo, curFile,
           batchId, queue, failedBatches, missed, driver, deleteClosed,
           applied>>

xvars == <<orders, clock, wmfile, logs, cycle, owed, high>>

\* The startup of the components.
svars == <<conn, shutdown, loaders, metadata, orders_dim>>

vars == <<lvars, xvars, svars>>

----------------------------------------------------------------------------
(* Bounds of the model *)

MaxKey == 1
MaxTime == 3
MaxQty == 3
MaxBatchLen == 1
MaxFiles == 1
MaxSeq == 3

Keys == 1..MaxKey

\* The orders of an artifact that carries changes for several orders.
MaxDirKeys == 2
DirKeys == 1..MaxDirKeys

\* The ids an artifact of the model can carry.
IdKeys == Keys \cup DirKeys
Times == 1..MaxTime
Quantities == 1..MaxQty
FileNames == 1..MaxFiles

NULL == 0
Ops == {"INSERT", "UPDATE", "DELETE"}

\* The order_key TechnicalAuditor.test_1_sql_traceability works on.
AuditKey == 99999

----------------------------------------------------------------------------
(* Change records of an artifact (spec section 6, wire fields)             *)

\* An ISO timestamp text: the instant and whether an offset is written.
IsoText(t, aware) == [t |-> t, aware |-> aware]

\* order_date text: the instant and whether date and time are joined by "T"
\* (isoformat, as the test batches write it) or by a blank (str(datetime),
\* as json.dump(default=str) of the extractor writes it).
DateText(d, tsep) == [d |-> d, tsep |-> tsep]

ChangeRecord(k, op, q, t, aware, tsep) ==
    [id |-> k, customer_id |-> 1, product_id |-> 1, quantity |-> q,
     unit_price |-> 10, total_amount |-> 10 * q, order_status |-> "pending",
     order_date |-> DateText(1, tsep), operation_type |-> op,
     cdc_timestamp |-> IsoText(t, aware)]

ChangesOf(aware, tsep) ==
    {ChangeRecord(k, op, q, t, aware, tsep) :
        k \in Keys, op \in Ops, q \in Quantities, t \in Times}

\* How a producer writes its texts: the extractor and the test scripts
\* stamp cdc_timestamp with datetime.now(timezone.utc).isoformat(), an
\* offset included; the extractor's json.dump(default=str) writes
\* order_date with a blank, the scripts write it with "T". The third style
\* is a producer that stamps without an offset.
Styles ==
    {[aware |-> TRUE, tsep |-> FALSE],
     [aware |-> TRUE, tsep |-> TRUE],
     [aware |-> FALSE, tsep |-> FALSE]}

\* The artifacts the environment can write: up to MaxBatchLen records, all
\* written by one producer (one style for the whole artifact).
Batches ==
    UNION {UNION {[1..n -> ChangesOf(st.aware, st.tsep)] : n \in 0..MaxBatchLen} :
              st \in Styles}

----------------------------------------------------------------------------
(* Conversions                                                             *)

\* datetime.fromisoformat(text.replace('Z', '+00:00')): an aware datetime
\* when the text carries an offset, a naive one otherwise.
FromIsoFormat(text) == [t |-> text.t, aware |-> text.aware]

\* What a TIMESTAMP (without time zone) column stores of a timestamp text or
\* of a datetime parameter: the instant alone.
ToTimestamp(x) == x.t

\* What psycopg2 returns for a TIMESTAMP column: a naive datetime.
FromTimestamp(t) == [t |-> t, aware |-> FALSE]

\* Python's datetime.__eq__: a naive and an aware datetime are never equal.
DatetimeEq(a, b) == a.aware = b.aware /\ a.t = b.t

\* str(datetime) of a naive datetime: date and time joined by a blank.
StrOfDate(d) == DateText(d, FALSE)

----------------------------------------------------------------------------
(* The table dim_orders_history and the loader's database session          *)

\* A session: the committed rows, the rows as the open transaction sees
\* them, whether the transaction is aborted, and the sequence.
Session(t, w, f, n) == [table |-> t, work |-> w, failed |-> f, seq |-> n]

\* Result of a step of the loader on the session.
Result(s, ok) == [s |-> s, ok |-> ok]

\* The table without dim_orders_history_current_unique (seeded fault).
CurrentUniqueAbsent(rows) == TRUE

\* CONSTRAINT dim_orders_history_current_unique UNIQUE (order_key, is_current)
\* DEFERRABLE INITIALLY DEFERRED: checked when the transaction commits.
CurrentUnique(rows) ==
    \A r1, r2 \in rows :
        (r1.order_key = r2.order_key /\ r1.is_current = r2.is_current)
            => r1.surrogate_key = r2.surrogate_key

\* A valid_time_check that admits an empty interval (seeded fault).
ValidTimeCheckNonStrict(r) == r.valid_to = NULL \/ r.valid_to >= r.valid_from

\* CONSTRAINT dim_orders_history_valid_time_check
ValidTimeCheck(r) == r.valid_to = NULL \/ r.valid_to > r.valid_from

\* CONSTRAINT dim_orders_history_current_check
CurrentCheck(r) == r.is_current = TRUE \/ r.valid_to # NULL

\* An INSERT that takes valid_from from order_date (seeded fault).
NewRowFromOrderDate(sk, change, validFrom, bid) ==
    [surrogate_key |-> sk,
     order_key |-> change.id,
     customer_id |-> change.customer_id,
     product_id |-> change.product_id,
     quantity |-> change.quantity,
     unit_price |-> change.unit_price,
     total_amount |-> change.total_amount,
     order_status |-> change.order_status,
     order_date |-> change.order_date.d,
     valid_from |-> change.order_date.d,
     valid_to |-> NULL,
     is_current |-> TRUE,
     cdc_operation |-> change.operation_type,
     cdc_timestamp |-> validFrom,
     batch_id |-> bid]

\* The row an INSERT statement of the loader builds: surrogate_key from the
\* sequence, valid_to NULL, is_current by its DEFAULT TRUE.
NewRow(sk, change, validFrom, bid) ==
    [surrogate_key |-> sk,
     order_key |-> change.id,
     customer_id |-> change.customer_id,
     product_id |-> change.product_id,
     quantity |-> change.quantity,
     unit_price |-> change.unit_price,
     total_amount |-> change.total_amount,
     order_status |-> change.order_status,
     order_date |-> change.order_date.d,
     valid_from |-> validFrom,
     valid_to |-> NULL,
     is_current |-> TRUE,
     cdc_operation |-> change.operation_type,
     cdc_timestamp |-> validFrom,
     batch_id |-> bid]

\* connection.rollback(): the open transaction's changes are dropped; the
\* sequence keeps the values it handed out.
Rollback(s) == Session(s.table, s.table, FALSE, s.seq)

\* connection.commit(): in an aborted transaction COMMIT acts as ROLLBACK and
\* raises nothing; otherwise the deferred unique constraint is checked, and
\* a violation (or a failure of the server, fault) rolls the transaction
\* back and raises.
Commit(s, fault) ==
    IF s.failed THEN Result(Rollback(s), TRUE)
    ELSE IF fault \/ ~CurrentUnique(s.work) THEN Result(Rollback(s), FALSE)
    ELSE Result(Session(s.work, s.work, FALSE, s.seq), TRUE)

\* A statement that raises leaves the transaction usable (seeded fault).
AbortKeepsTransaction(s) == s

\* A statement that raises psycopg2.Error leaves the transaction aborted.
Abort(s) == Session(s.table, s.work, TRUE, s.seq)

\* The WHERE clause without "AND is_current = TRUE" (seeded fault).
CurrentRowsAnyVersion(rows, orderKey) == {r \in rows : r.order_key = orderKey}

\* WHERE order_key = %s AND is_current = TRUE
CurrentRows(rows, orderKey) ==
    {r \in rows : r.order_key = orderKey /\ r.is_current}

\* The closing UPDATE without "is_current = FALSE" (seeded fault).
ExpireRowKeepsCurrent(r, expire) == [r EXCEPT !.valid_to = expire]

\* UPDATE dim_orders_history SET valid_to = %s, is_current = FALSE
\* WHERE order_key = %s AND is_current = TRUE RETURNING surrogate_key
\* ok is FALSE when the statement raises; hit tells whether a row came back.
ExpireRow(r, expire) == [r EXCEPT !.valid_to = expire, !.is_current = FALSE]

ExpireStatement(s, orderKey, expire, fault) ==
    LET hit == CurrentRows(s.work, orderKey)
        new == {ExpireRow(r, expire) : r \in hit}
    IN  IF s.failed \/ fault
           \/ \E r \in new : ~ValidTimeCheck(r) \/ ~CurrentCheck(r)
        THEN [s |-> Abort(s), ok |-> FALSE, hit |-> FALSE]
        ELSE [s |-> Session(s.table, (s.work \ hit) \cup new, FALSE, s.seq),
              ok |-> TRUE, hit |-> hit # {}]

\* INSERT INTO dim_orders_history (...) VALUES (...) RETURNING surrogate_key
\* The default nextval() is taken before the row is checked, so a statement
\* that the server runs and rejects (fault) still uses up a value.
InsertStatement(s, change, validFrom, bid, fault) ==
    LET row == NewRow(s.seq + 1, change, validFrom, bid)
    IN  IF s.failed THEN Result(Abort(s), FALSE)
        ELSE IF fault \/ ~ValidTimeCheck(row) \/ ~CurrentCheck(row)
        THEN Result(Session(s.table, s.work, TRUE, s.seq + 1), FALSE)
        ELSE Result(Session(s.table, s.work \cup {row}, FALSE, s.seq + 1), TRUE)

----------------------------------------------------------------------------
(* SCD2Loader: one change record                                           *)

None == [surrogate_key |-> 0]

\* Where a database error can be injected while one change record is
\* processed: the SELECT of _get_current_record, the closing UPDATE, the
\* INSERT, the COMMIT.
Faults == {"none", "select", "expire", "insert", "commit"}

\* How `with connection:` behaves when the connection is already inside a
\* `with connection:` block (as in _process_update_change and
\* _process_delete_change, which _process_batch_file calls inside its own
\* block). psycopg2 before 2.9 enters again and commits when the inner block
\* ends; psycopg2 2.9 and later raise ProgrammingError ("the connection
\* cannot be re-entered recursively"). The repository pins no version.
Drivers == {"reenter", "refuse"}

\* _get_current_record: the current row of the key, or None; a database
\* error is logged and answered with None.
GetCurrentRecord(s, orderKey, fault) ==
    IF s.failed \/ fault THEN [s |-> Abort(s), rec |-> None]
    ELSE LET hit == CurrentRows(s.work, orderKey)
         IN  [s |-> s, rec |-> IF hit = {} THEN None ELSE CHOOSE r \in hit : TRUE]

\* _insert_new_record: valid_from and cdc_timestamp are the record's
\* cdc_timestamp text, converted by the server.
InsertNewRecord(s, change, bid, fault) ==
    InsertStatement(s, change, ToTimestamp(change.cdc_timestamp), bid, fault)

\* A comparison that takes the capture timestamp for a change of the order
\* (seeded fault).
HasChangesWithCapture(rec, change) ==
    \/ rec.customer_id # change.customer_id
    \/ rec.product_id # change.product_id
    \/ rec.quantity # change.quantity
    \/ rec.unit_price # change.unit_price
    \/ rec.order_status # change.order_status
    \/ StrOfDate(rec.order_date) # change.order_date
    \/ rec.cdc_timestamp # ToTimestamp(FromIsoFormat(change.cdc_timestamp))

\* has_changes of _process_update_change (total_amount is not compared).
HasChanges(rec, change) ==
    \/ rec.customer_id # change.customer_id
    \/ rec.product_id # change.product_id
    \/ rec.quantity # change.quantity
    \/ rec.unit_price # change.unit_price
    \/ rec.order_status # change.order_status
    \/ StrOfDate(rec.order_date) # change.order_date

\* The close and the insert in two transactions, the close committed before
\* the insert is tried (seeded fault).
ExpireAndInsertSplit(s, change, bid, f, drv) ==
    LET ts == FromIsoFormat(change.cdc_timestamp)
        e == ExpireStatement(s, change.id, ToTimestamp(ts), f = "expire")
        c0 == Commit(e.s, f = "commit")
        i == InsertStatement(c0.s, change, ToTimestamp(ts), bid, f = "insert")
        c1 == Commit(i.s, FALSE)
    IN  IF drv = "refuse" THEN Result(Rollback(s), FALSE)
        ELSE IF ~e.ok THEN Result(Rollback(e.s), FALSE)
        ELSE IF ~c0.ok \/ ~e.hit THEN Result(Rollback(c0.s), FALSE)
        ELSE IF ~i.ok THEN Result(Rollback(i.s), FALSE)
        ELSE IF ~c1.ok THEN Result(Rollback(c1.s), FALSE)
        ELSE Result(c1.s, TRUE)

\* The block "with self.warehouse_connection: ..." of _process_update_change
\* (lines 357-407): close the current row, insert the new one, commit when
\* the block ends; any psycopg2.Error rolls back and answers False.
ExpireAndInsert(s, change, bid, f, drv) ==
    LET ts == FromIsoFormat(change.cdc_timestamp)
        e == ExpireStatement(s, change.id, ToTimestamp(ts), f = "expire")
        i == InsertStatement(e.s, change, ToTimestamp(ts), bid, f = "insert")
        c0 == Commit(e.s, f = "commit")
        c1 == Commit(i.s, f = "commit")
    IN  IF drv = "refuse" THEN Result(Rollback(s), FALSE)
        ELSE IF ~e.ok THEN Result(Rollback(e.s), FALSE)
        ELSE IF ~e.hit THEN Result(Rollback(c0.s), FALSE)
        ELSE IF ~i.ok THEN Result(Rollback(i.s), FALSE)
        ELSE IF ~c1.ok THEN Result(Rollback(c1.s), FALSE)
        ELSE Result(c1.s, TRUE)

RECURSIVE ProcessInsertChange(_, _, _, _, _)
RECURSIVE ProcessUpdateChange(_, _, _, _, _)

\* _process_insert_change
ProcessInsertChange(s, change, bid, f, drv) ==
    LET cdc_timestamp == FromIsoFormat(change.cdc_timestamp)
        g == GetCurrentRecord(s, change.id, f = "select")
    IN  IF g.rec # None
        THEN IF DatetimeEq(FromTimestamp(g.rec.cdc_timestamp), cdc_timestamp)
                /\ g.rec.cdc_operation = "INSERT"
             THEN Result(g.s, TRUE)
             ELSE ProcessUpdateChange(g.s, change, bid, f, drv)
        ELSE InsertNewRecord(g.s, change, bid, f = "insert")

\* _process_update_change
ProcessUpdateChange(s, change, bid, f, drv) ==
    LET g == GetCurrentRecord(s, change.id, f = "select")
    IN  IF g.rec = None THEN ProcessInsertChange(g.s, change, bid, f, drv)
        ELSE IF ~HasChanges(g.rec, change) THEN Result(g.s, TRUE)
        ELSE ExpireAndInsert(g.s, change, bid, f, drv)

\* _process_delete_change: close the current row and commit when the block
\* ends; no row to close counts as success.
ProcessDeleteChange(s, change, bid, f, drv) ==
    LET ts == FromIsoFormat(change.cdc_timestamp)
        e == ExpireStatement(s, change.id, ToTimestamp(ts), f = "expire")
        c == Commit(e.s, f = "commit")
    IN  IF drv = "refuse" THEN Result(Rollback(s), FALSE)
        ELSE IF ~e.ok THEN Result(Rollback(e.s), FALSE)
        ELSE IF ~c.ok THEN Result(Rollback(c.s), FALSE)
        ELSE Result(c.s, TRUE)

\* A dispatch that sends UPDATE to _process_delete_change (seeded fault).
ProcessChangeRecordUpdateAsDelete(s, change, bid, f, drv) ==
    CASE change.operation_type = "INSERT" ->
            ProcessInsertChange(s, change, bid, f, drv)
      [] change.operation_type \in {"UPDATE", "DELETE"} ->
            ProcessDeleteChange(s, change, bid, f, drv)
      [] OTHER -> Result(s, FALSE)

\* _process_change_record
ProcessChangeRecord(s, change, bid, f, drv) ==
    CASE change.operation_type = "INSERT" ->
            ProcessInsertChange(s, change, bid, f, drv)
      [] change.operation_type = "UPDATE" ->
            ProcessUpdateChange(s, change, bid, f, drv)
      [] change.operation_type = "DELETE" ->
            ProcessDeleteChange(s, change, bid, f, drv)
      [] OTHER -> Result(s, FALSE)

----------------------------------------------------------------------------
(* SCD2Loader: one batch artifact                                          *)

\* A name of the log directory: no file, a complete artifact, or a file
\* that json.dump has not written to its end (json.load raises on it).
NoFile == [present |-> FALSE, partial |-> FALSE, changes |-> <<>>]
File(changes) == [present |-> TRUE, partial |-> FALSE, changes |-> changes]
PartialFile(changes) == [present |-> TRUE, partial |-> TRUE, changes |-> changes]

\* _generate_batch_id: md5 of the sorted list of the records' ids, that is
\* of how often each id occurs.
GenerateBatchId(changes) ==
    [k \in IdKeys |-> Cardinality({i \in DOMAIN changes : changes[i].id = k})]

\* _get_processed_files: the set of ledger lines; the empty set when the
\* file is missing or reading it raises IOError.
GetProcessedFiles(lines, ioerror) == IF ioerror THEN {} ELSE lines

\* A lookup that never gets the ledger's lines (seeded fault).
AlreadyProcessedUnread(lines, ioerror, name, bid) ==
    \E line \in GetProcessedFiles(lines, TRUE) :
        line[1] = name /\ line[2] = bid

\* The loop "for line in processed_files" of _process_batch_file finds a
\* line name|identity of the batch.
AlreadyProcessed(lines, ioerror, name, bid) ==
    \E line \in GetProcessedFiles(lines, ioerror) :
        Len(line) = 2 /\ line[1] = name /\ line[2] = bid

\* How that loop can end. processed_files is a set and the loop walks it in
\* no fixed order: it returns at a line of the batch, and
\* "filename, processed_batch_id = line.split('|', 1)" raises ValueError at
\* a line without "|", whichever comes first.
LedgerLookup(lines, ioerror, name, bid) ==
    LET raises == \E line \in GetProcessedFiles(lines, ioerror) : Len(line) < 2
        found == AlreadyProcessed(lines, ioerror, name, bid)
    IN  (IF raises THEN {"ValueError"} ELSE {})
            \cup (IF found THEN {"processed"} ELSE {})
            \cup (IF ~raises /\ ~found THEN {"unprocessed"} ELSE {})

\* changes_by_order: the ids in the order of their first record.
RECURSIVE OrderKeys(_, _)
OrderKeys(changes, seen) ==
    IF changes = <<>> THEN <<>>
    ELSE IF Head(changes).id \in seen THEN OrderKeys(Tail(changes), seen)
    ELSE <<Head(changes).id>>
             \o OrderKeys(Tail(changes), seen \cup {Head(changes).id})

\* order_changes[-1] of a sort that is not stable: on equal capture
\* timestamps the record earliest in the batch wins (seeded fault).
LatestChangeFirstOnTies(changes, orderKey) ==
    LET idx == {i \in DOMAIN changes : changes[i].id = orderKey}
        top == {i \in idx : \A j \in idx :
                    changes[j].cdc_timestamp.t <= changes[i].cdc_timestamp.t}
    IN  changes[CHOOSE i \in top : \A j \in top : i <= j]

\* order_changes[0]: the record with the earliest capture timestamp (seeded
\* fault).
LatestChangeEarliest(changes, orderKey) ==
    LET idx == {i \in DOMAIN changes : changes[i].id = orderKey}
        low == {i \in idx : \A j \in idx :
                    changes[i].cdc_timestamp.t <= changes[j].cdc_timestamp.t}
    IN  changes[CHOOSE i \in low : \A j \in low : i <= j]

\* order_changes.sort(key=cdc_timestamp); order_changes[-1]: the sort is
\* stable, so of the records with the greatest cdc_timestamp text the one
\* latest in the batch. All texts of an artifact have one style, so the
\* order of the texts is the order of the instants.
LatestChange(changes, orderKey) ==
    LET idx == {i \in DOMAIN changes : changes[i].id = orderKey}
        top == {i \in idx : \A j \in idx :
                    changes[j].cdc_timestamp.t <= changes[i].cdc_timestamp.t}
    IN  changes[CHOOSE i \in top : \A j \in top : j <= i]

\* The changes _process_batch_file hands to _process_change_record.
EffectiveChanges(changes) ==
    LET ks == OrderKeys(changes, {})
    IN  [n \in DOMAIN ks |-> LatestChange(changes, ks[n])]

----------------------------------------------------------------------------
(* CDCLogExtractor (src/src/cdc/log_extractor.py) and the source table      *)

MaxOrders == 2
MaxClock == 3

\* timedelta(minutes=5) of the default watermark, in clock ticks.
Lookback == 2

OrderIds == 1..MaxOrders
Instants == 1..MaxClock

\* A row of the source table orders, as far as change detection reads it.
\* An id comes from a sequence and is never given twice, so an order is
\* not yet inserted, present, or deleted for good.
NoOrder == [status |-> "absent", created_at |-> 0, last_updated |-> 0]

Order(created, updated) ==
    [status |-> "present", created_at |-> created, last_updated |-> updated]

DeletedOrder == [status |-> "deleted", created_at |-> 0, last_updated |-> 0]

\* The file .watermark: absent, holding the text _save_watermark wrote, or
\* holding what an interrupted write left there (not an ISO timestamp).
NoWatermark == [kind |-> "missing", text |-> IsoText(0, FALSE)]

Garbled == [kind |-> "garbled", text |-> IsoText(0, FALSE)]

\* timestamp.isoformat() of the naive datetime a TIMESTAMP column yields.
WatermarkText(t) == [kind |-> "text", text |-> IsoText(t, FALSE)]

NoCycle ==
    [from |-> "none", since |-> 0, dbfail |-> FALSE, detected |-> {},
     wrote |-> FALSE, saved |-> "none", recovered |-> {}]

\* The components whose _connect retries: CDCLogExtractor, SCD2Loader and
\* DatabaseMutator.
Components == {"extractor", "loader", "mutator"}

\* max_retries of _connect.
MaxRetries == 5

\* _connect has not been called yet.
NotConnected == [status |-> "starting", attempt |-> 0, slept |-> 0]

\* _connect returned at its first attempt.
Connected == [status |-> "connected", attempt |-> 1, slept |-> 0]

\* The loader instances of the model of concurrent loaders.
Instances == {1, 2}

\* A loader instance and its transaction on the warehouse: where it is in
\* _process_change_record for its change (pc, proc), the rows of the
\* committed table it has closed and the rows it has inserted, both not yet
\* committed, the rows it holds a row lock on, the rows a blocked statement
\* waits for, whether the deferred unique check has to look again at
\* commit, how the batch ended, and the table as it was at the start; calls
\* counts the calls of _process_insert_change and _process_update_change
\* for the change, failed tells that a statement has raised and left the
\* transaction aborted.
Loader(change, start) ==
    [pc |-> "idle", proc |-> "none", change |-> change, closed |-> {},
     added |-> {}, locks |-> {}, waiting |-> {}, flagged |-> FALSE,
     ok |-> FALSE, alone |-> TRUE, start |-> start, calls |-> 0,
     failed |-> FALSE]

\* One loader at a time: the instances never start.
OneLoader ==
    loaders = [i \in Instances |->
                  Loader(ChangeRecord(1, "INSERT", 1, 1, TRUE, FALSE), {})]

\* GracefulShutdownHandler.__init__: no signal seen yet.
NoSignal == shutdown = FALSE

\* No load run has been recorded and orders_dim is empty.
NothingRecorded ==
    /\ metadata = [status |-> "none", ended |-> FALSE]
    /\ orders_dim = {}

ServicesUp ==
    /\ conn = [c \in Components |-> Connected]
    /\ NoSignal
    /\ OneLoader
    /\ NothingRecorded

ExtractorStart ==
    /\ orders = [id \in OrderIds |-> NoOrder]
    /\ clock = 1
    /\ wmfile = NoWatermark
    /\ logs = {}
    /\ cycle = NoCycle
    /\ owed = {}
    /\ high = 0

----------------------------------------------------------------------------
(* State machine                                                           *)

Sess == Session(table, work, txfailed, seq)

SetSession(s) ==
    /\ table' = s.table
    /\ work' = s.work
    /\ txfailed' = s.failed
    /\ seq' = s.seq

\* sorted(self.cdc_logs_dir.glob("changes_*.json"))
Sorted(names) ==
    CHOOSE q \in [1..Cardinality(names) -> names] :
        \A i, j \in DOMAIN q : i < j => q[i] < q[j]

NoBatch == [k \in IdKeys |-> 0]

LoaderStart ==
    /\ table = {}
    /\ work = {}
    /\ txfailed = FALSE
    /\ seq = 0
    /\ files = [f \in FileNames |-> NoFile]
    /\ ledger = {}
    /\ pc = "idle"
    /\ todo = <<>>
    /\ curFile = 0
    /\ batchId = NoBatch
    /\ queue = <<>>
    /\ failedBatches = 0
    /\ missed = {}
    /\ driver \in Drivers
    /\ deleteClosed = {}
    /\ applied = {}

Init == LoaderStart /\ ExtractorStart /\ ServicesUp

\* An artifact appears in data/cdc_logs. CDCLogExtractor._write_change_logs
\* names it by the clock, a name never used before (fresh): the name f of
\* the model then stands for that new name, and the ledger lines of the name
\* it stood for before, which never comes back, leave the model. Otherwise
\* somebody presents an artifact under the name f used before. An artifact
\* that arrives during a run is not among the run's unprocessed_files, so
\* its arrival commutes with the steps of the run and is taken after them.
WriteArtifact(f, b, fresh) ==
    /\ pc = "idle"
    /\ ~files[f].present
    /\ files' = [files EXCEPT ![f] = File(b)]
    /\ ledger' = IF fresh THEN {line \in ledger : line[1] # f} ELSE ledger
    /\ applied' = applied \ {f}
    /\ UNCHANGED <<table, work, txfailed, seq, pc, todo, curFile, batchId,
                   queue, failedBatches, missed, driver, deleteClosed>>
    /\ UNCHANGED xvars
    /\ UNCHANGED svars

\* CDCLogExtractor._cleanup_old_logs unlinks an artifact past its retention;
\* the ledger is not touched. The loader reads an artifact in one piece when
\* it opens the batch, so an unlink while a batch is open commutes with the
\* steps of the batch and is taken after them.
CleanupOldLogs(f) ==
    /\ pc # "batch"
    /\ files[f].present
    /\ files' = [files EXCEPT ![f] = NoFile]
    /\ applied' = applied \ {f}
    /\ UNCHANGED <<table, work, txfailed, seq, ledger, pc, todo, curFile,
                   batchId, queue, failedBatches, missed, driver,
                   deleteClosed>>
    /\ UNCHANGED xvars
    /\ UNCHANGED svars

\* PipelineMetadataManager.update_pipeline_run. The statement is built
\* with "$1", "$2", ... and handed to cursor.execute with its parameters;
\* psycopg2 substitutes "%s" only, so the server never accepts it: the
\* call answers False after a rollback, or raises for the parameters that
\* were not used, and the row stays as it is. An accepted statement would
\* store the status if the CHECK on status admits it, and set end_time for
\* 'completed', 'failed' and 'cancelled'.
UpdatePipelineRun(row, status) ==
    LET accepted == FALSE
        checked == status \in {"running", "completed", "failed", "cancelled"}
    IN  IF accepted /\ checked
        THEN [status |-> status,
              ended |-> status \in {"completed", "failed", "cancelled"}]
        ELSE row

\* load_change_logs up to the loop over unprocessed_files: the run is
\* recorded by start_pipeline_run with status 'running'; with nothing
\* unprocessed the run updates its row to "completed" and returns at once.
\* missed keeps whether the read of the ledger lost lines.
StartRun(ioerror) ==
    /\ pc = "idle"
    /\ LET processed_files == GetProcessedFiles(ledger, ioerror)
           processed_filenames == {line[1] : line \in processed_files}
           batch_files == {f \in DOMAIN files : files[f].present}
           unprocessed_files == Sorted(batch_files \ processed_filenames)
           started == [status |-> "running", ended |-> FALSE]
       IN  IF unprocessed_files = <<>>
           THEN /\ metadata' = UpdatePipelineRun(started, "completed")
                /\ UNCHANGED <<pc, todo, missed>>
           ELSE /\ pc' = "run"
                /\ todo' = unprocessed_files
                /\ missed' = IF processed_files # ledger THEN {"run"} ELSE {}
                /\ metadata' = started
    /\ failedBatches' = 0
    /\ UNCHANGED <<table, work, txfailed, seq, files, ledger, curFile,
                   batchId, queue, driver, deleteClosed, applied>>
    /\ UNCHANGED xvars
    /\ UNCHANGED <<conn, shutdown, loaders, orders_dim>>

\* Seeded fault: a failed batch ends the loop of load_change_logs.
FinishBatchAbortsRun(ok) ==
    /\ pc' = "run"
    /\ todo' = IF ok THEN Tail(todo) ELSE <<>>
    /\ failedBatches' = IF ok THEN failedBatches ELSE failedBatches + 1
    /\ curFile' = 0
    /\ batchId' = NoBatch
    /\ queue' = <<>>
    /\ missed' = IF Tail(todo) = <<>> THEN {} ELSE missed \ {"batch"}

\* How _process_batch_file ends, seen from the loop of load_change_logs.
FinishBatch(ok) ==
    /\ pc' = "run"
    /\ todo' = Tail(todo)
    /\ failedBatches' = IF ok THEN failedBatches ELSE failedBatches + 1
    /\ curFile' = 0
    /\ batchId' = NoBatch
    /\ queue' = <<>>
    /\ missed' = IF Tail(todo) = <<>> THEN {} ELSE missed \ {"batch"}

\* The head of the loop of load_change_logs, which breaks when the handler
\* has seen a signal, and _process_batch_file up to the transaction: read
\* the artifact (a missing or partial file raises), build the batch_id,
\* look it up in the ledger, group the changes by order.
OpenBatch(ioerror) ==
    /\ pc = "run"
    /\ todo # <<>>
    /\ LET f == Head(todo)
           changes == files[f].changes
           bid == GenerateBatchId(changes)
       IN  IF shutdown
           THEN /\ todo' = <<>>
                /\ missed' = {}
                /\ UNCHANGED <<pc, failedBatches, curFile, batchId, queue>>
           ELSE IF ~files[f].present \/ files[f].partial
           THEN FinishBatch(FALSE)
           ELSE IF changes = <<>>
           THEN FinishBatch(TRUE)
           ELSE \E found \in LedgerLookup(ledger, ioerror, f, bid) :
                IF found = "processed"
                THEN FinishBatch(TRUE)
                ELSE IF found = "ValueError"
                THEN FinishBatch(FALSE)
                ELSE /\ pc' = "batch"
                     /\ curFile' = f
                     /\ batchId' = bid
                     /\ queue' = EffectiveChanges(changes)
                     /\ missed' = IF GetProcessedFiles(ledger, ioerror) # ledger
                                  THEN missed \cup {"batch"} ELSE missed
                     /\ UNCHANGED <<todo, failedBatches>>
    /\ UNCHANGED <<table, work, txfailed, seq, files, ledger, driver,
                   deleteClosed, applied>>
    /\ UNCHANGED xvars
    /\ UNCHANGED svars

\* The rows of the committed table that this step closed.
ClosedBy(old, new) ==
    {r.surrogate_key : r \in {x \in old : x.is_current /\
        \E y \in new : y.surrogate_key = x.surrogate_key /\ ~y.is_current}}

\* One turn of the loop of _process_batch_file: _process_change_record for
\* the latest change of the next order; on False the loop raises, the
\* `with` block rolls back and _process_batch_file answers False.
ProcessChange ==
    /\ pc = "batch"
    /\ queue # <<>>
    /\ \E f \in Faults :
        LET change == Head(queue)
            r == ProcessChangeRecord(Sess, change, batchId, f, driver)
        IN  /\ r.s.seq <= MaxSeq
            /\ IF r.ok
               THEN /\ SetSession(r.s)
                    /\ queue' = Tail(queue)
                    /\ UNCHANGED <<pc, todo, failedBatches, curFile, batchId,
                                   missed>>
               ELSE /\ SetSession(Rollback(r.s))
                    /\ FinishBatch(FALSE)
            /\ deleteClosed' = deleteClosed \cup
                  IF change.operation_type = "DELETE"
                  THEN ClosedBy(table, table') ELSE {}
            /\ applied' = IF table' = table THEN applied ELSE {}
    /\ UNCHANGED <<files, ledger, driver>>
    /\ UNCHANGED xvars
    /\ UNCHANGED svars

\* Seeded fault: _mark_file_processed is called whether or not the
\* transaction of the batch committed.
CommitBatchAlwaysMarks ==
    /\ pc = "batch"
    /\ queue = <<>>
    /\ \E fault \in BOOLEAN, ioerror \in BOOLEAN :
        LET c == Commit(Sess, fault)
        IN  /\ SetSession(c.s)
            /\ FinishBatch(c.ok)
            /\ ledger' = IF ~ioerror
                         THEN ledger \cup {<<curFile, batchId>>}
                         ELSE ledger
            /\ applied' = (IF table' = table THEN applied ELSE {})
                              \cup (IF c.ok THEN {curFile} ELSE {})
    /\ UNCHANGED <<files, driver, deleteClosed>>
    /\ UNCHANGED xvars
    /\ UNCHANGED svars

\* The end of the `with` block of _process_batch_file (commit) and
\* _mark_file_processed, whose IOError is logged and dropped.
CommitBatch ==
    /\ pc = "batch"
    /\ queue = <<>>
    /\ \E fault \in BOOLEAN, ioerror \in BOOLEAN :
        LET c == Commit(Sess, fault)
        IN  /\ SetSession(c.s)
            /\ FinishBatch(c.ok)
            /\ ledger' = IF c.ok /\ ~ioerror
                         THEN ledger \cup {<<curFile, batchId>>}
                         ELSE ledger
            /\ applied' = (IF table' = table THEN applied ELSE {})
                              \cup (IF c.ok THEN {curFile} ELSE {})
    /\ UNCHANGED <<files, driver, deleteClosed>>
    /\ UNCHANGED xvars
    /\ UNCHANGED svars

\* The final status load_change_logs computes after the loop.
RunStatus == IF failedBatches = 0 THEN "completed" ELSE "completed_with_errors"

\* load_change_logs after the loop: the run updates its row with
\* RunStatus and returns; its counters die with the call.
EndRun ==
    /\ pc = "run"
    /\ todo = <<>>
    /\ pc' = "idle"
    /\ failedBatches' = 0
    /\ missed' = {}
    /\ metadata' = UpdatePipelineRun(metadata, RunStatus)
    /\ UNCHANGED <<table, work, txfailed, seq, files, ledger, todo, curFile,
                   batchId, queue, driver, deleteClosed, applied>>
    /\ UNCHANGED xvars
    /\ UNCHANGED <<conn, shutdown, loaders, orders_dim>>

----------------------------------------------------------------------------
(* TechnicalAuditor.test_1_sql_traceability: the constraint test            *)

\* The two rows the test inserts for AuditKey, both with is_current TRUE.
AuditChange(q, status, op, t) ==
    [id |-> AuditKey, customer_id |-> 1, product_id |-> 1, quantity |-> q,
     unit_price |-> 10, total_amount |-> 10 * q, order_status |-> status,
     order_date |-> DateText(t, TRUE), operation_type |-> op,
     cdc_timestamp |-> IsoText(t, TRUE)]

AuditBatch(n) == [k \in IdKeys |-> 0 - n]

AuditRows(n) ==
    {NewRow(n + 1, AuditChange(1, "pending", "INSERT", 1), 1, AuditBatch(1)),
     NewRow(n + 2, AuditChange(2, "confirmed", "UPDATE", 2), 2, AuditBatch(2))}

\* Lines 131-165, on the auditor's own connection: clear the test data and
\* commit, insert the two rows, commit; the IntegrityError of the commit is
\* answered with a rollback. The loader has no transaction open between two
\* runs, which is where the step is taken.
AuditConstraintTest ==
    /\ pc = "idle"
    /\ seq + 2 <= MaxSeq
    /\ LET cleared == {r \in table : r.order_key # AuditKey}
           c == Commit(Session(cleared, cleared \cup AuditRows(seq), FALSE,
                               seq + 2), FALSE)
       IN  /\ table' = c.s.table
           /\ work' = c.s.table
           /\ seq' = c.s.seq
    /\ UNCHANGED <<txfailed, files, ledger, pc, todo, curFile, batchId, queue,
                   failedBatches, missed, driver, deleteClosed, applied>>
    /\ UNCHANGED xvars
    /\ UNCHANGED svars

\* Lines 167-169: clean up the test data and commit.
AuditCleanup ==
    /\ pc = "idle"
    /\ table' = {r \in table : r.order_key # AuditKey}
    /\ work' = table'
    /\ UNCHANGED <<txfailed, seq, files, ledger, pc, todo, curFile, batchId,
                   queue, failedBatches, missed, driver, deleteClosed,
                   applied>>
    /\ UNCHANGED xvars
    /\ UNCHANGED svars

----------------------------------------------------------------------------
(* Specification                                                           *)

Next ==
    \/ \E f \in FileNames, b \in Batches, fresh \in BOOLEAN :
          WriteArtifact(f, b, fresh)
    \/ \E f \in FileNames : CleanupOldLogs(f)
    \/ \E ioerror \in BOOLEAN : StartRun(ioerror)
    \/ \E ioerror \in BOOLEAN : OpenBatch(ioerror)
    \/ ProcessChange
    \/ CommitBatch
    \/ EndRun
    \/ AuditConstraintTest
    \/ AuditCleanup

Spec == Init /\ [][Next]_vars

----------------------------------------------------------------------------
(* Rapid updates: one artifact with several records for an order, as       *)
(* scripts/test_rapid_updates.py builds it, loaded into a warehouse that   *)
(* is empty or holds the order's first version.                            *)

MaxRapidLen == 3

\* Artifacts of 2..MaxRapidLen records, all for order 1 and of one producer;
\* as in create_test_batch the i-th record carries quantity i, so that the
\* records of an artifact differ in their values. Operations and capture
\* timestamps are free.
RapidBatches ==
    UNION {UNION {{b \in [1..n -> ChangesOf(st.aware, st.tsep)] :
                      \A i \in 1..n : b[i] = ChangeRecord(1,
                          b[i].operation_type, i, b[i].cdc_timestamp.t,
                          st.aware, st.tsep)} :
                      n \in 2..MaxRapidLen} : st \in Styles}

\* The version of order 1 an earlier artifact of the extractor inserted at
\* instant 1.
FirstVersion ==
    LET change == ChangeRecord(1, "INSERT", 1, 1, TRUE, FALSE)
    IN  NewRow(1, change, 1, GenerateBatchId(<<change>>))

InitRapid ==
    /\ table \in {{}, {FirstVersion}}
    /\ work = table
    /\ txfailed = FALSE
    /\ seq = Cardinality(table)
    /\ \E b \in RapidBatches : files = [f \in FileNames |-> File(b)]
    /\ ledger = {}
    /\ pc = "idle"
    /\ todo = <<>>
    /\ curFile = 0
    /\ batchId = NoBatch
    /\ queue = <<>>
    /\ failedBatches = 0
    /\ missed = {}
    /\ driver \in Drivers
    /\ deleteClosed = {}
    /\ applied = {}
    /\ ExtractorStart
    /\ ServicesUp

NextRapid ==
    \/ \E ioerror \in BOOLEAN : StartRun(ioerror)
    \/ \E ioerror \in BOOLEAN : OpenBatch(ioerror)
    \/ ProcessChange
    \/ CommitBatch
    \/ EndRun

SpecRapid == InitRapid /\ [][NextRapid]_vars

----------------------------------------------------------------------------
(* Extraction: the simulator changes the source table while                *)
(* CDCLogExtractor.extract_changes (and single_run_extractor.main, which   *)
(* runs the same cycle once) polls it.                                     *)

Tick ==
    /\ clock < MaxClock
    /\ clock' = clock + 1
    /\ UNCHANGED <<orders, wmfile, logs, cycle, owed, high>>
    /\ UNCHANGED lvars
    /\ UNCHANGED svars

\* INSERT INTO orders (...): the id is the next of the sequence, created_at
\* and last_updated take the column default, the current time.
InsertOrder(id) ==
    /\ orders[id] = NoOrder
    /\ \A other \in OrderIds : other < id => orders[other] # NoOrder
    /\ orders' = [orders EXCEPT ![id] = Order(clock, clock)]
    /\ UNCHANGED <<clock, wmfile, logs, cycle, owed, high>>
    /\ UNCHANGED lvars
    /\ UNCHANGED svars

\* UPDATE orders SET ..., last_updated = CURRENT_TIMESTAMP WHERE id = %s
UpdateOrder(id) ==
    /\ orders[id].status = "present"
    /\ orders[id].last_updated # clock
    /\ orders' = [orders EXCEPT ![id].last_updated = clock]
    /\ UNCHANGED <<clock, wmfile, logs, cycle, owed, high>>
    /\ UNCHANGED lvars
    /\ UNCHANGED svars

\* DELETE FROM orders WHERE id = %s
DeleteOrder(id) ==
    /\ orders[id].status = "present"
    /\ orders' = [orders EXCEPT ![id] = DeletedOrder]
    /\ UNCHANGED <<clock, wmfile, logs, cycle, owed, high>>
    /\ UNCHANGED lvars
    /\ UNCHANGED svars

\* _get_watermark: the datetime of the file's text; the default, an aware
\* datetime Lookback before now, when the file is missing or reading or
\* parsing it fails.
GetWatermark(file, now, ioerror) ==
    IF file.kind = "text" /\ ~ioerror
    THEN [from |-> "file", value |-> FromIsoFormat(file.text)]
    ELSE [from |-> "default", value |-> [t |-> now - Lookback, aware |-> TRUE]]

\* _save_watermark: open(..., 'w') and write. An IOError is logged and
\* nothing else; when open fails the file is as before, when the write
\* fails the file is already truncated.
SaveWatermark(file, t, ioerror) ==
    CASE ioerror = "none"  -> WatermarkText(t)
      [] ioerror = "open"  -> file
      [] ioerror = "write" -> Garbled

SaveFaults == {"none", "open", "write"}

\* Seeded fault: the snapshot query selects with >= in place of >.
SelectedInclusive(rows, since) ==
    {id \in OrderIds : /\ rows[id].status = "present"
                       /\ \/ rows[id].last_updated >= since
                          \/ rows[id].created_at >= since}

\* The rows the snapshot query selects:
\* WHERE last_updated > since OR created_at > since
Selected(rows, since) ==
    {id \in OrderIds : /\ rows[id].status = "present"
                       /\ \/ rows[id].last_updated > since
                          \/ rows[id].created_at > since}

\* ORDER BY last_updated, id
SnapshotOrder(rows, ids) ==
    CHOOSE q \in [1..Cardinality(ids) -> ids] :
        /\ \A i, j \in DOMAIN q : i # j => q[i] # q[j]
        /\ \A i, j \in DOMAIN q : i < j =>
              \/ rows[q[i]].last_updated < rows[q[j]].last_updated
              \/ /\ rows[q[i]].last_updated = rows[q[j]].last_updated
                 /\ q[i] < q[j]

\* Seeded fault: a failed query still yields the selected rows.
DetectChangesIgnoresError(rows, since, now, dberror) ==
    LET t == ToTimestamp(since)
        q == SnapshotOrder(rows, Selected(rows, t))
    IN  [i \in DOMAIN q |->
            [id |-> q[i],
             created_at |-> rows[q[i]].created_at,
             last_updated |-> rows[q[i]].last_updated,
             operation_type |-> IF rows[q[i]].created_at > t
                                THEN "INSERT" ELSE "UPDATE",
             cdc_timestamp |-> IsoText(now, TRUE)]]

\* _detect_changes: since.replace(tzinfo=None) is compared with the
\* TIMESTAMP columns; a row created after since is an INSERT, any other
\* selected row an UPDATE; every record is stamped with the time of
\* detection. When the query fails the result is the empty list.
DetectChanges(rows, since, now, dberror) ==
    IF dberror THEN <<>>
    ELSE LET t == ToTimestamp(since)
             q == SnapshotOrder(rows, Selected(rows, t))
         IN  [i \in DOMAIN q |->
                 [id |-> q[i],
                  created_at |-> rows[q[i]].created_at,
                  last_updated |-> rows[q[i]].last_updated,
                  operation_type |-> IF rows[q[i]].created_at > t
                                     THEN "INSERT" ELSE "UPDATE",
                  cdc_timestamp |-> IsoText(now, TRUE)]]

ChangeIds(changes) == {changes[i].id : i \in DOMAIN changes}

\* max(last_updated of the changes)
LatestTimestamp(changes) ==
    CHOOSE t \in {changes[i].last_updated : i \in DOMAIN changes} :
        \A i \in DOMAIN changes : changes[i].last_updated <= t

\* _write_change_logs: the records go to a new changes_<now>.json; an
\* IOError is logged and nothing else, and the log directory has no
\* complete artifact of the cycle. Of the records written so far the
\* model keeps which version of which order they carry.
WriteChangeLogs(written, changes, ioerror) ==
    IF ioerror THEN written
    ELSE written \cup {<<changes[i].id, changes[i].last_updated>> :
                          i \in DOMAIN changes}

\* One pass of the loop of extract_changes. The module installs no signal
\* handler: SIGTERM ends the process and SIGINT raises KeyboardInterrupt
\* wherever the loop is, also between _write_change_logs and
\* _save_watermark (stopped); the extractor is then started again.
ExtractCycle(readerror, dberror, writeerror, saveerror, stopped) ==
    LET watermark == GetWatermark(wmfile, clock, readerror)
        changes == DetectChanges(orders, watermark.value, clock, dberror)
        wouldbe == DetectChanges(orders, watermark.value, clock, FALSE)
    IN  /\ IF changes # <<>>
           THEN /\ logs' = WriteChangeLogs(logs, changes, writeerror)
                /\ stopped => ~writeerror /\ saveerror = "none"
                /\ wmfile' = IF stopped THEN wmfile
                             ELSE SaveWatermark(wmfile, LatestTimestamp(changes),
                                                saveerror)
                /\ high' = IF ~stopped /\ saveerror = "none"
                                /\ LatestTimestamp(changes) > high
                           THEN LatestTimestamp(changes) ELSE high
           ELSE /\ writeerror = FALSE
                /\ saveerror = "none"
                /\ ~stopped
                /\ UNCHANGED <<logs, wmfile, high>>
        /\ cycle' = [from |-> watermark.from,
                     since |-> ToTimestamp(watermark.value),
                     dbfail |-> dberror,
                     detected |-> ChangeIds(changes),
                     wrote |-> changes # <<>> /\ ~writeerror,
                     saved |-> IF changes = <<>> THEN "none"
                               ELSE IF stopped THEN "stopped"
                               ELSE IF saveerror = "none" THEN "ok"
                               ELSE "failed",
                     recovered |-> {e[1] : e \in owed} \cap ChangeIds(changes)]
        /\ owed' = IF dberror
                   THEN owed \cup {<<id, watermark.from>> : id \in ChangeIds(wouldbe)}
                   ELSE {}
        /\ UNCHANGED <<orders, clock>>
        /\ UNCHANGED lvars
        /\ UNCHANGED svars

NextExtract ==
    \/ Tick
    \/ \E id \in OrderIds : InsertOrder(id)
    \/ \E id \in OrderIds : UpdateOrder(id)
    \/ \E id \in OrderIds : DeleteOrder(id)
    \/ \E readerror, dberror, writeerror, stopped \in BOOLEAN,
          saveerror \in SaveFaults :
              ExtractCycle(readerror, dberror, writeerror, saveerror, stopped)

\* The warehouse side does nothing in this specification.
InitExtract == Init /\ driver = "reenter"

SpecExtract == InitExtract /\ [][NextExtract]_vars

----------------------------------------------------------------------------
(* Startup: _connect of CDCLogExtractor, SCD2Loader and DatabaseMutator    *)

\* Whether the module of the component imports time: log_extractor.py and
\* db_mutator.py do, scd2_loader.py does not.
TimeImported(c) == c # "loader"

ConnectResults == {"ok", "OperationalError"}

\* One turn of the loop "for attempt in range(max_retries)": the attempt
\* succeeds and _connect returns, or psycopg2.connect raises
\* OperationalError; then, before the last attempt, time.sleep(retry_delay)
\* (a NameError where time is not imported, which leaves _connect), and at
\* the last attempt the error is raised again.
ConnectAttempt(c, result) ==
    /\ conn[c].status = "starting"
    /\ LET attempt == conn[c].attempt
       IN  conn' = [conn EXCEPT ![c] =
               IF result = "ok"
               THEN [status |-> "connected", attempt |-> attempt + 1,
                     slept |-> conn[c].slept]
               ELSE IF attempt < MaxRetries - 1
               THEN IF TimeImported(c)
                    THEN [status |-> "starting", attempt |-> attempt + 1,
                          slept |-> conn[c].slept + 1]
                    ELSE [status |-> "NameError", attempt |-> attempt + 1,
                          slept |-> conn[c].slept]
               ELSE [status |-> "fatal", attempt |-> attempt + 1,
                     slept |-> conn[c].slept]]
    /\ UNCHANGED <<shutdown, loaders, metadata, orders_dim>>
    /\ UNCHANGED lvars
    /\ UNCHANGED xvars

InitConnect ==
    /\ LoaderStart
    /\ driver = "reenter"
    /\ ExtractorStart
    /\ conn = [c \in Components |-> NotConnected]
    /\ NoSignal
    /\ OneLoader
    /\ NothingRecorded

NextConnect ==
    \E c \in Components, result \in ConnectResults : ConnectAttempt(c, result)

SpecConnect == InitConnect /\ [][NextConnect]_vars

----------------------------------------------------------------------------
(* The log directory shared by the extractor, the loader and               *)
(* ChangeProcessor: artifacts with changes for several orders, an artifact *)
(* that is being written while the loader runs, ledger lines of            *)
(* ChangeProcessor, and a shutdown signal.                                 *)

DirFiles == {1, 2}

\* The operation types of the artifacts: the two the extractor assigns and
\* the one its snapshot query selects before it assigns them, which
\* _process_change_record does not know.
DirOps == {"INSERT", "UPDATE", "UPSERT"}

\* An artifact of the extractor captured at instant t: one record per order
\* of DirKeys, by ascending id as the snapshot query orders rows of one
\* last_updated.
DirArtifact(ops, t) ==
    [i \in DirKeys |-> ChangeRecord(i, ops[i], 2, t, TRUE, FALSE)]

\* The artifact of the next cycle when the watermark did not advance: the
\* same rows and, since is the same, the same operation types, stamped
\* with the later now().
Recapture(changes) ==
    [i \in DOMAIN changes |->
        [changes[i] EXCEPT !.cdc_timestamp = IsoText(3, TRUE)]]

\* CDCLogExtractor._write_change_logs opens changes_<now>.json under its
\* final name and json.dump streams into it: from the open to the end of
\* the dump the directory shows a file with part of the batch.
BeginWrite(f) ==
    /\ f # 1
    /\ files[1].present
    /\ ~files[f].present
    /\ files' = [files EXCEPT ![f] = PartialFile(Recapture(files[1].changes))]
    /\ UNCHANGED <<table, work, txfailed, seq, ledger, pc, todo, curFile,
                   batchId, queue, failedBatches, missed, driver,
                   deleteClosed, applied>>
    /\ UNCHANGED xvars
    /\ UNCHANGED svars

\* json.dump returns and the `with` block closes the file.
FinishWrite(f) ==
    /\ files[f].present
    /\ files[f].partial
    /\ files' = [files EXCEPT ![f] = File(files[f].changes)]
    /\ UNCHANGED <<table, work, txfailed, seq, ledger, pc, todo, curFile,
                   batchId, queue, failedBatches, missed, driver,
                   deleteClosed, applied>>
    /\ UNCHANGED xvars
    /\ UNCHANGED svars

\* ChangeProcessor._process_change_record: the statements of one record and
\* their commit. orders_dim has one constraint besides its key, UNIQUE
\* (order_key, valid_from); a violation raises, the record is rolled back
\* and process_cdc_logs goes on with the next one. An operation type that
\* is none of the three runs no statement. The serial surrogate key plays
\* no part and is left out; other database errors are not considered.
ProcessorChangeRecord(rows, change) ==
    LET ts == ToTimestamp(change.cdc_timestamp)
        closed == {IF r.order_key = change.id /\ r.is_current
                   THEN [r EXCEPT !.valid_to = ts, !.is_current = FALSE]
                   ELSE r : r \in rows}
        row == [order_key |-> change.id,
                customer_id |-> change.customer_id,
                product_id |-> change.product_id,
                quantity |-> change.quantity,
                unit_price |-> change.unit_price,
                total_amount |-> change.total_amount,
                order_status |-> change.order_status,
                order_date |-> change.order_date.d,
                valid_from |-> ts,
                valid_to |-> NULL,
                is_current |-> TRUE,
                cdc_operation |-> change.operation_type,
                cdc_timestamp |-> ts]
        Insert(rs) ==
            IF \E r \in rs : r.order_key = row.order_key
                                /\ r.valid_from = row.valid_from
            THEN rows
            ELSE rs \cup {row}
    IN  CASE change.operation_type = "DELETE" -> closed
          [] change.operation_type = "INSERT" -> Insert(rows)
          [] change.operation_type = "UPDATE" -> Insert(closed)
          [] OTHER -> rows

\* The loop over the records of one artifact in process_cdc_logs.
RECURSIVE ProcessCdcRecords(_, _)
ProcessCdcRecords(rows, changes) ==
    IF changes = <<>> THEN rows
    ELSE ProcessCdcRecords(ProcessorChangeRecord(rows, Head(changes)),
                           Tail(changes))

\* ChangeProcessor.process_cdc_logs for one artifact: a file whose name is
\* not a line of the ledger and that json.load can read is applied to
\* orders_dim record by record and then marked with its bare name, whether
\* or not records failed.
ChangeProcessorMarks(f) ==
    /\ files[f].present
    /\ ~files[f].partial
    /\ <<f>> \notin ledger
    /\ ledger' = ledger \cup {<<f>>}
    /\ orders_dim' = ProcessCdcRecords(orders_dim, files[f].changes)
    /\ UNCHANGED <<table, work, txfailed, seq, files, pc, todo, curFile,
                   batchId, queue, failedBatches, missed, driver,
                   deleteClosed, applied>>
    /\ UNCHANGED xvars
    /\ UNCHANGED <<conn, shutdown, loaders, metadata>>

\* GracefulShutdownHandler._signal_handler on SIGTERM or SIGINT.
SignalHandler ==
    /\ ~shutdown
    /\ shutdown' = TRUE
    /\ UNCHANGED <<conn, loaders, metadata, orders_dim>>
    /\ UNCHANGED lvars
    /\ UNCHANGED xvars

\* The warehouse holds nothing or the first version of order 1; the
\* directory holds one artifact, complete or cut short by an extractor
\* that is still writing it or was killed while writing it.
InitDir ==
    /\ table \in {{}, {FirstVersion}}
    /\ work = table
    /\ txfailed = FALSE
    /\ seq = Cardinality(table)
    /\ \E ops \in [DirKeys -> DirOps] :
          \E first \in {File(DirArtifact(ops, 2)),
                         PartialFile(DirArtifact(ops, 2))} :
              files = [f \in DirFiles |-> IF f = 1 THEN first ELSE NoFile]
    /\ ledger = {}
    /\ pc = "idle"
    /\ todo = <<>>
    /\ curFile = 0
    /\ batchId = NoBatch
    /\ queue = <<>>
    /\ failedBatches = 0
    /\ missed = {}
    /\ driver \in Drivers
    /\ deleteClosed = {}
    /\ applied = {}
    /\ ExtractorStart
    /\ ServicesUp

NextDir ==
    \/ \E f \in DirFiles : BeginWrite(f)
    \/ \E f \in DirFiles : FinishWrite(f)
    \/ \E f \in DirFiles : ChangeProcessorMarks(f)
    \/ SignalHandler
    \/ \E ioerror \in BOOLEAN : StartRun(ioerror)
    \/ \E ioerror \in BOOLEAN : OpenBatch(ioerror)
    \/ ProcessChange
    \/ CommitBatch
    \/ EndRun

SpecDir == InitDir /\ [][NextDir]_vars

----------------------------------------------------------------------------
(* Two loader instances on one warehouse, each with its own connection,    *)
(* each applying one change for order 1 as a batch of its own. PostgreSQL  *)
(* runs the transactions READ COMMITTED: a statement sees what is          *)
(* committed when it starts and what its own transaction wrote; SELECT FOR *)
(* UPDATE and UPDATE lock the rows they return or change until the         *)
(* transaction ends; a statement that meets a locked row waits and then    *)
(* looks at that row again, not at rows inserted meanwhile.                *)

Other(i) == CHOOSE j \in Instances : j # i

\* The steps of the two instances touch the table, the sequence and their
\* own transactions only.
OnWarehouseOnly ==
    /\ UNCHANGED <<work, txfailed, files, ledger, pc, todo, curFile, batchId,
                   queue, failedBatches, missed, driver, deleteClosed,
                   applied>>
    /\ UNCHANGED xvars
    /\ UNCHANGED <<conn, shutdown, metadata, orders_dim>>

\* What the statements of instance i see.
View(i) ==
    {IF \E c \in loaders[i].closed : c[1] = r.surrogate_key
     THEN ExpireRow(r, (CHOOSE c \in loaders[i].closed :
                            c[1] = r.surrogate_key)[2])
     ELSE r : r \in table} \cup loaders[i].added

TxSession(i) == Session(table, View(i), loaders[i].failed, seq)

\* The index of dim_orders_history_current_unique is looked at when a row
\* version is written: another version with the same (order_key,
\* is_current), committed or written by a transaction in progress, makes
\* the deferred check look again when the transaction commits.
MayConflict(i, rows) ==
    \E r \in rows, x \in View(i) \cup View(Other(i)) :
        /\ x.order_key = r.order_key
        /\ x.is_current = r.is_current
        /\ x.surrogate_key # r.surrogate_key

\* The transaction of instance i ends: rollback, or commit of nothing.
EndTx(i, ok) ==
    [loaders[i] EXCEPT !.pc = "done", !.ok = ok, !.closed = {}, !.added = {},
                       !.locks = {}, !.waiting = {}, !.flagged = FALSE,
                       !.failed = FALSE]

\* Where _process_insert_change (proc "insert") or _process_update_change
\* (proc "update") goes on after _get_current_record returned rec.
AfterSelect(i, rec) ==
    LET me == loaders[i]
        ts == FromIsoFormat(me.change.cdc_timestamp)
    IN  IF me.proc = "insert"
        THEN IF rec = None THEN [me EXCEPT !.pc = "insert"]
             ELSE IF DatetimeEq(FromTimestamp(rec.cdc_timestamp), ts)
                     /\ rec.cdc_operation = "INSERT"
             THEN [me EXCEPT !.pc = "commit"]
             ELSE [me EXCEPT !.proc = "update", !.pc = "select",
                             !.calls = @ + 1]
        ELSE IF rec = None
             THEN [me EXCEPT !.proc = "insert", !.pc = "select",
                             !.calls = @ + 1]
             ELSE IF ~HasChanges(rec, me.change) THEN [me EXCEPT !.pc = "commit"]
             ELSE [me EXCEPT !.pc = "expire"]

\* load_change_logs of instance i reaches _process_change_record.
BeginChange(i) ==
    /\ loaders[i].pc = "idle"
    /\ loaders' = [loaders EXCEPT ![i] =
          [@ EXCEPT !.pc = "select",
                    !.calls = 1,
                    !.proc = IF loaders[i].change.operation_type = "INSERT"
                             THEN "insert" ELSE "update",
                    !.alone = loaders[Other(i)].pc \in {"idle", "done"}]]
    /\ UNCHANGED <<table, seq>>
    /\ OnWarehouseOnly

\* _get_current_record: the current row of the order is locked and
\* returned; when the other transaction holds its lock the statement waits.
\* A statement sent in an aborted transaction raises and is answered with
\* None.
SelectForUpdate(i) ==
    /\ loaders[i].pc = "select"
    /\ LET hit == CurrentRows(View(i), loaders[i].change.id)
           need == {r.surrogate_key : r \in hit \cap table}
           g == GetCurrentRecord(TxSession(i), loaders[i].change.id, FALSE)
       IN  loaders' = [loaders EXCEPT ![i] =
              IF g.s.failed
              THEN AfterSelect(i, g.rec)
              ELSE IF need \cap loaders[Other(i)].locks # {}
              THEN [@ EXCEPT !.pc = "blocked", !.waiting = need]
              ELSE [AfterSelect(i, g.rec) EXCEPT !.locks = @ \cup need]]
    /\ UNCHANGED <<table, seq>>
    /\ OnWarehouseOnly

\* The other transaction has ended: the waiting SELECT looks again at the
\* rows it waited for and returns those that are still current.
SelectResumes(i) ==
    /\ loaders[i].pc = "blocked"
    /\ loaders[i].waiting \cap loaders[Other(i)].locks = {}
    /\ LET hit == {r \in CurrentRows(table, loaders[i].change.id) :
                      r.surrogate_key \in loaders[i].waiting}
           rec == IF hit = {} THEN None ELSE CHOOSE r \in hit : TRUE
       IN  loaders' = [loaders EXCEPT ![i] =
              [AfterSelect(i, rec) EXCEPT
                  !.locks = @ \cup {r.surrogate_key : r \in hit},
                  !.waiting = {}]]
    /\ UNCHANGED <<table, seq>>
    /\ OnWarehouseOnly

\* _insert_new_record, from _process_insert_change or inside the block of
\* _process_update_change.
InsertRow(i) ==
    /\ loaders[i].pc \in {"insert", "insert2"}
    /\ seq < MaxSeq + 2
    /\ LET me == loaders[i]
           r == InsertNewRecord(TxSession(i), me.change,
                                GenerateBatchId(<<me.change>>), FALSE)
           new == r.s.work \ View(i)
       IN  /\ loaders' = [loaders EXCEPT ![i] =
                 IF r.ok
                 THEN [me EXCEPT !.pc = "commit", !.added = @ \cup new,
                                 !.flagged = @ \/ MayConflict(i, new)]
                 ELSE EndTx(i, FALSE)]
           /\ seq' = r.s.seq
    /\ UNCHANGED table
    /\ OnWarehouseOnly

\* The block "with self.warehouse_connection:" of _process_update_change up
\* to the insert: under a psycopg2 that refuses the nested block nothing is
\* run; otherwise _expire_current_record closes the current row.
ExpireCurrent(i) ==
    /\ loaders[i].pc = "expire"
    /\ LET me == loaders[i]
           ts == ToTimestamp(FromIsoFormat(me.change.cdc_timestamp))
           e == ExpireStatement(TxSession(i), me.change.id, ts, FALSE)
           hit == CurrentRows(View(i), me.change.id)
           new == {ExpireRow(r, ts) : r \in hit}
       IN  loaders' = [loaders EXCEPT ![i] =
              IF driver = "refuse" \/ ~e.ok \/ ~e.hit
              THEN EndTx(i, FALSE)
              ELSE [me EXCEPT
                      !.pc = "insert2",
                      !.closed = @ \cup {<<r.surrogate_key, ts>> :
                                            r \in hit \cap table},
                      !.added = (@ \ hit) \cup
                                {ExpireRow(r, ts) : r \in hit \ table},
                      !.locks = @ \cup {r.surrogate_key : r \in hit \cap table},
                      !.flagged = @ \/ MayConflict(i, new)]]
    /\ UNCHANGED <<table, seq>>
    /\ OnWarehouseOnly

\* The `with` block ends and commits. The deferred unique check that has to
\* look again waits for the transaction that wrote the other version; a
\* violation rolls back and the batch fails.
CommitTx(i) ==
    /\ loaders[i].pc = "commit"
    /\ loaders[i].flagged =>
          loaders[Other(i)].closed = {} /\ loaders[Other(i)].added = {}
    /\ LET c == Commit(TxSession(i), FALSE)
       IN  /\ table' = c.s.table
           /\ loaders' = [loaders EXCEPT ![i] = EndTx(i, c.ok)]
    /\ UNCHANGED seq
    /\ OnWarehouseOnly

\* The warehouse holds nothing or the first version of order 1. The
\* changes of the two instances are INSERT or UPDATE of order 1 with
\* quantities 2 and 3, captured at instants 2 and 2 or 3.
InitTwo ==
    /\ table \in {{}, {FirstVersion}}
    /\ work = table
    /\ txfailed = FALSE
    /\ seq = Cardinality(table)
    /\ files = [f \in FileNames |-> NoFile]
    /\ ledger = {}
    /\ pc = "idle"
    /\ todo = <<>>
    /\ curFile = 0
    /\ batchId = NoBatch
    /\ queue = <<>>
    /\ failedBatches = 0
    /\ missed = {}
    /\ driver \in Drivers
    /\ deleteClosed = {}
    /\ applied = {}
    /\ ExtractorStart
    /\ conn = [c \in Components |-> Connected]
    /\ NoSignal
    /\ NothingRecorded
    /\ \E ops \in [Instances -> {"INSERT", "UPDATE"}], t \in {2, 3} :
          loaders = [i \in Instances |->
              Loader(ChangeRecord(1, ops[i], i + 1, IF i = 1 THEN 2 ELSE t,
                                  TRUE, FALSE), table)]

\* The SELECT of _get_current_record raises psycopg2.Error: the error is
\* logged, None is returned, and the transaction is left aborted.
SelectRaises(i) ==
    /\ loaders[i].pc = "select"
    /\ LET g == GetCurrentRecord(TxSession(i), loaders[i].change.id, TRUE)
       IN  loaders' = [loaders EXCEPT ![i] =
              [AfterSelect(i, g.rec) EXCEPT !.failed = g.s.failed]]
    /\ UNCHANGED <<table, seq>>
    /\ OnWarehouseOnly

NextTwo ==
    \/ \E i \in Instances : BeginChange(i)
    \/ \E i \in Instances : SelectForUpdate(i)
    \/ \E i \in Instances : SelectResumes(i)
    \/ \E i \in Instances : InsertRow(i)
    \/ \E i \in Instances : ExpireCurrent(i)
    \/ \E i \in Instances : CommitTx(i)

SpecTwo == InitTwo /\ [][NextTwo]_vars

\* The same two instances with database errors at the reads of the current
\* row.
NextTwoRaising ==
    \/ \E i \in Instances : BeginChange(i)
    \/ \E i \in Instances : SelectForUpdate(i)
    \/ \E i \in Instances : SelectRaises(i)
    \/ \E i \in Instances : SelectResumes(i)
    \/ \E i \in Instances : InsertRow(i)
    \/ \E i \in Instances : ExpireCurrent(i)
    \/ \E i \in Instances : CommitTx(i)

SpecTwoRaising == InitTwo /\ [][NextTwoRaising]_vars

----------------------------------------------------------------------------
(* Properties                                                              *)

\* C1: every committed state of dim_orders_history has, for each order_key,
\* at most one row with is_current = TRUE, whatever batches were applied and
\* whether they succeeded or failed.
C1_AtMostOneCurrent ==
    \A r1, r2 \in table :
        (r1.order_key = r2.order_key /\ r1.is_current /\ r2.is_current)
            => r1 = r2

\* A key that went through an UPDATE: one closed and one current version.
C1_Witness ==
    \E r1, r2 \in table :
        /\ r1.order_key = r2.order_key
        /\ ~r1.is_current
        /\ r2.is_current
        /\ r2.cdc_operation = "UPDATE"

\* C2: in every committed state each row has valid_to NULL exactly when
\* is_current is TRUE, and every row with is_current = FALSE has valid_to
\* strictly greater than valid_from.
C2_ValidToIffCurrent ==
    \A r \in table :
        /\ (r.valid_to = NULL) <=> r.is_current
        /\ ~r.is_current => r.valid_to > r.valid_from

\* A key whose only version a DELETE closed.
C2_Witness ==
    \E r \in table :
        /\ ~r.is_current
        /\ r.surrogate_key \in deleteClosed
        /\ CurrentRows(table, r.order_key) = {}

\* The versions of a key in the committed table.
Versions(orderKey) == {r \in table : r.order_key = orderKey}

\* [a.valid_from, a.valid_to) and [b.valid_from, b.valid_to) share an
\* instant; valid_to NULL is unbounded.
Overlap(a, b) ==
    /\ (b.valid_to = NULL \/ a.valid_from < b.valid_to)
    /\ (a.valid_to = NULL \/ b.valid_from < a.valid_to)

\* C3: for any key and any two of its versions in any committed state the
\* intervals [valid_from, valid_to) do not overlap, also for a key inserted
\* again after a DELETE.
C3_NoOverlap ==
    \A a, b \in table :
        (a.order_key = b.order_key /\ a # b) => ~Overlap(a, b)

\* n is the version that follows r when the key's versions are ordered by
\* valid_from.
Successor(r, n) ==
    /\ n.order_key = r.order_key
    /\ n.valid_from > r.valid_from
    /\ ~\E m \in Versions(r.order_key) :
            r.valid_from < m.valid_from /\ m.valid_from < n.valid_from

\* C4 as stated: for every key, with its versions ordered by valid_from, the
\* valid_to of each version equals the valid_from of the next version.
C4_NoGap ==
    \A r, n \in table : Successor(r, n) => r.valid_to = n.valid_from

\* C4, amended: every version that an UPDATE closed is followed, in the
\* order of valid_from, by a version whose valid_from equals its valid_to; a
\* version that a DELETE closed may be followed by a gap.
C4_UpdateClosesAtSuccessor ==
    \A r \in table :
        (~r.is_current /\ r.surrogate_key \notin deleteClosed)
            => \E n \in table : Successor(r, n) /\ n.valid_from = r.valid_to

\* A version closed by an UPDATE at instant 2 and its successor.
C4_Witness ==
    \E r, n \in table :
        /\ ~r.is_current
        /\ r.surrogate_key \notin deleteClosed
        /\ Successor(r, n)
        /\ r.valid_to = 2
        /\ n.is_current

\* C5: an UPDATE delivered in its own batch, with a capture timestamp later
\* than the key's current version and a different quantity, for a key that
\* an INSERT created and no DELETE touched, applies (no database fault
\* injected) and adds one version to the key.
C5_EveryUpdateApplies ==
    (pc = "batch" /\ queue # <<>> /\ work = table /\ ~txfailed) =>
        LET change == Head(queue)
            r == ProcessChangeRecord(Sess, change, batchId, "none", driver)
            c == Commit(r.s, FALSE)
        IN  (/\ change.operation_type = "UPDATE"
             /\ Len(files[curFile].changes) = 1
             /\ \A v \in Versions(change.id) :
                    v.surrogate_key \notin deleteClosed
             /\ \E v \in CurrentRows(table, change.id) :
                    /\ v.quantity # change.quantity
                    /\ v.valid_from < ToTimestamp(change.cdc_timestamp))
            => /\ r.ok
               /\ c.ok
               /\ Cardinality({v \in c.s.table : v.order_key = change.id})
                     = Cardinality(Versions(change.id)) + 1

\* C6: no step deletes a row of dim_orders_history; a step leaves a row as
\* it is or closes a current row (valid_to set, is_current cleared), so a
\* closed row and every row's attributes and valid_from never change.
C6_AppendOnly ==
    [][\A r \in table : \E n \in table' :
          /\ n.surrogate_key = r.surrogate_key
          /\ \/ n = r
             \/ /\ r.is_current
                /\ n.valid_to # NULL
                /\ n = [r EXCEPT !.valid_to = n.valid_to, !.is_current = FALSE]
      ]_vars

\* A version a DELETE closed, still there after the key was inserted again.
C6_Witness ==
    \E r, n \in table :
        /\ r.order_key = n.order_key
        /\ r.surrogate_key \in deleteClosed
        /\ n.is_current
        /\ n.surrogate_key > r.surrogate_key

\* C7: while an artifact is applied that has been applied in full before,
\* the table not changed since (its ledger line present or not), no step
\* changes the committed table: the second application leaves the rows of the
\* first.
C7_SecondApplicationKeepsTable ==
    [][(pc = "batch" /\ curFile \in applied) => table' = table]_vars

\* The second application of an artifact has processed its changes.
C7_Witness ==
    /\ pc = "batch"
    /\ curFile \in applied
    /\ queue = <<>>
    /\ Versions(files[curFile].changes[1].id) # {}

\* An artifact whose (name, batch_id) line is in the ledger is being applied.
RecordedUnderApplication ==
    pc = "batch" /\ <<curFile, batchId>> \in ledger

\* C8 as stated: once an artifact is recorded in the ledger under its name
\* and batch_id, presenting it again applies no transition: no row is
\* inserted or closed and the sequence does not advance.
C8_RecordedAppliesNothing ==
    [][RecordedUnderApplication => (table' = table /\ seq' = seq)]_vars

\* C8, amended: an artifact recorded in the ledger is applied again only in
\* a run in which both reads of the ledger (the one of load_change_logs and
\* the one of _process_batch_file) failed; and outside the application of an
\* artifact the loader changes neither the table nor the sequence.
C8_RecordedAppliedOnlyUnread ==
    /\ [](RecordedUnderApplication => missed = {"run", "batch"})
    /\ [][pc = "run" => (table' = table /\ seq' = seq)]_vars

\* A recorded artifact, presented again, was skipped by _process_batch_file:
\* the run ends with no failed batch and the artifact was not applied.
C8_Witness ==
    /\ pc = "run"
    /\ todo = <<>>
    /\ failedBatches = 0
    /\ \E f \in FileNames :
          /\ files[f].present
          /\ <<f, GenerateBatchId(files[f].changes)>> \in ledger
          /\ f \notin applied

\* C9: a step that closes a committed current row commits, in the same
\* step, a new current row of the key that starts where the closed one ends,
\* unless the step applies a DELETE; so after a failed insertion or commit
\* of _process_update_change the current row is still current.
C9_CloseAndInsertTogether ==
    [][\A r \in table : \A n \in table' :
          (r.is_current /\ n.surrogate_key = r.surrogate_key /\ ~n.is_current)
          => \/ pc = "batch" /\ queue # <<>>
                   /\ Head(queue).operation_type = "DELETE"
             \/ \E m \in table' \ table :
                   /\ m.order_key = r.order_key
                   /\ m.is_current
                   /\ m.valid_from = n.valid_to
      ]_vars

\* The insertion of _process_update_change has failed after the close: the
\* sequence value 2 is used up, the batch has failed, and the key's only
\* row is still current.
C9_Witness ==
    /\ pc = "run"
    /\ failedBatches > 0
    /\ seq = 2
    /\ \E r \in table :
          /\ table = {r}
          /\ r.surrogate_key = 1
          /\ r.is_current
          /\ r.valid_to = NULL

\* The run of load_change_logs has visited its artifacts and reports
\* "completed".
RunSucceeded == pc = "run" /\ todo = <<>> /\ RunStatus = "completed"

\* C10 as stated: after a run that reports success every key with rows has
\* exactly one row with is_current = TRUE.
C10_ExactlyOneCurrent ==
    RunSucceeded =>
        \A r \in table : Cardinality(CurrentRows(table, r.order_key)) = 1

\* C10, amended: after a run that reports success every key with rows has
\* exactly one current row, or none and its latest version is one that a
\* DELETE closed.
C10_OneCurrentOrDeleted ==
    RunSucceeded =>
        \A r \in table :
            \/ Cardinality(CurrentRows(table, r.order_key)) = 1
            \/ /\ CurrentRows(table, r.order_key) = {}
               /\ \E v \in Versions(r.order_key) :
                     /\ v.surrogate_key \in deleteClosed
                     /\ \A w \in Versions(r.order_key) :
                            w.surrogate_key <= v.surrogate_key

\* A successful run has applied a DELETE: the key has no current row.
C10_Witness ==
    /\ RunSucceeded
    /\ applied # {}
    /\ \E r \in table :
          /\ r.surrogate_key \in deleteClosed
          /\ CurrentRows(table, r.order_key) = {}

\* The rows the artifact f of the rapid-update run has inserted: they carry
\* its batch_id, which counts the artifact's records per order.
InsertedBy(f) ==
    {r \in table : r.batch_id = GenerateBatchId(files[f].changes)}

\* The order was absent when the rapid-update run began.
InitiallyAbsent == \A r \in table : r.batch_id # FirstVersion.batch_id

RapidShape(b) ==
    /\ Len(b) = 3
    /\ b[1].operation_type = "INSERT"
    /\ b[2].operation_type = "UPDATE"
    /\ b[3].operation_type = "UPDATE"
    /\ b[1].cdc_timestamp.t < b[2].cdc_timestamp.t
    /\ b[2].cdc_timestamp.t < b[3].cdc_timestamp.t

AboutToApply(op) ==
    /\ pc = "batch"
    /\ queue # <<>>
    /\ Head(queue).operation_type = op
    /\ work = table
    /\ ~txfailed

\* _process_change_record for that change when no database error occurs,
\* followed by the commit that ends the batch's `with` block.
Applied ==
    LET r == ProcessChangeRecord(Sess, Head(queue), batchId, "none", driver)
    IN  [ok |-> r.ok /\ Commit(r.s, FALSE).ok,
         table |-> Commit(r.s, FALSE).s.table,
         seq |-> r.s.seq]

\* C13: an UPDATE with capture timestamp t, later than the start of the
\* key's current version and with a different quantity, closes that version
\* (valid_to = t, is_current = FALSE) and inserts exactly one new current
\* row (valid_from = t, valid_to = NULL) with the incoming values; the key's
\* rows grow by one.
C13_UpdateClosesAndInserts ==
    AboutToApply("UPDATE") =>
        LET change == Head(queue)
            t == ToTimestamp(change.cdc_timestamp)
        IN  \A v \in CurrentRows(table, change.id) :
                (v.quantity # change.quantity /\ v.valid_from < t) =>
                    /\ Applied.ok
                    /\ ExpireRow(v, t) \in Applied.table
                    /\ \E n \in Applied.table \ table :
                          /\ Applied.table = (table \ {v}) \cup {ExpireRow(v, t), n}
                          /\ n = NewRow(n.surrogate_key, change, t, batchId)
                          /\ n.surrogate_key \notin
                                {x.surrogate_key : x \in table}

\* C14: an UPDATE whose attributes equal those of the key's current version
\* inserts no row, leaves every row as it is, uses no sequence value, and
\* is answered with success.
C14_SameValuesNoOp ==
    AboutToApply("UPDATE") =>
        LET change == Head(queue)
        IN  \A v \in CurrentRows(table, change.id) :
                (/\ v.customer_id = change.customer_id
                 /\ v.product_id = change.product_id
                 /\ v.quantity = change.quantity
                 /\ v.unit_price = change.unit_price
                 /\ v.total_amount = change.total_amount
                 /\ v.order_status = change.order_status
                 /\ v.order_date = change.order_date.d) =>
                    /\ Applied.ok
                    /\ Applied.table = table
                    /\ Applied.seq = seq

\* C15: a DELETE with capture timestamp t4 for a key with one closed and one
\* current version, t4 later than the start of the current version,
\* succeeds, closes the current row (valid_to = t4, is_current = FALSE),
\* inserts nothing and leaves the key without a current row.
C15_DeleteAfterUpdate ==
    AboutToApply("DELETE") =>
        LET change == Head(queue)
            t == ToTimestamp(change.cdc_timestamp)
        IN  \A v \in CurrentRows(table, change.id) :
                (/\ v.valid_from < t
                 /\ \E h \in Versions(change.id) : ~h.is_current) =>
                    /\ Applied.ok
                    /\ Applied.table = (table \ {v}) \cup {ExpireRow(v, t)}
                    /\ Applied.seq = seq

\* C16: a DELETE for a key that has no current row is answered with
\* success, inserts no row and modifies no row.
C16_DeleteAbsentSucceeds ==
    AboutToApply("DELETE") =>
        (CurrentRows(table, Head(queue).id) = {} =>
            /\ Applied.ok
            /\ Applied.table = table
            /\ Applied.seq = seq)

----------------------------------------------------------------------------
(* Watermark of the extractor                                              *)

\* A step of the extractor: the source table and the clock stay as they are.
ExtractStep == orders' = orders /\ clock' = clock

\* The largest last_updated among the source rows of the given ids.
MaxUpdated(ids) ==
    CHOOSE t \in {orders[id].last_updated : id \in ids} :
        \A id \in ids : orders[id].last_updated <= t

\* C17 as stated: over any sequence of extraction cycles the stored
\* watermark never decreases; a cycle that detects a change leaves it
\* strictly greater than before, at the largest last_updated detected, and
\* a cycle that detects nothing leaves it unchanged.
C17_WatermarkNeverDecreases ==
    [][ExtractStep =>
          /\ cycle'.detected = {} => wmfile' = wmfile
          /\ cycle'.detected # {} =>
                /\ wmfile' = WatermarkText(MaxUpdated(cycle'.detected))
                /\ wmfile.kind = "text" => wmfile'.text.t > wmfile.text.t
          /\ wmfile'.kind = "text" => wmfile'.text.t >= high]_vars

\* C17 corrected: a cycle that detects nothing leaves the watermark file
\* unchanged; a cycle that detects a change and saves without error
\* stores the largest last_updated detected, which is strictly greater
\* than the stored value when the cycle read that value from the file; a
\* cycle whose save fails leaves the file as it was or unreadable.
C17_WatermarkAdvancesWhenReadAndSaved ==
    [][ExtractStep =>
          /\ cycle'.detected = {} => wmfile' = wmfile
          /\ (cycle'.detected # {} /\ cycle'.saved = "ok") =>
                /\ wmfile' = WatermarkText(MaxUpdated(cycle'.detected))
                /\ cycle'.from = "file" => wmfile'.text.t > wmfile.text.t
          /\ (cycle'.detected # {} /\ cycle'.saved = "failed") =>
                wmfile' \in {wmfile, Garbled}]_vars

\* A cycle read a stored watermark, detected changes and stored a greater
\* one.
C17_Witness ==
    /\ cycle.from = "file"
    /\ cycle.since >= 1
    /\ cycle.detected # {}
    /\ cycle.saved = "ok"
    /\ wmfile.kind = "text"
    /\ wmfile.text.t > cycle.since

\* C18: in an extraction cycle the watermark is advanced only if the
\* cycle's artifact was written completely; when writing the artifact
\* fails the watermark keeps its value (so that the next cycle detects the
\* same changes again).
C18_AdvanceOnlyAfterArtifact ==
    [][ExtractStep =>
          /\ wmfile' # wmfile => cycle'.wrote
          /\ (cycle'.detected # {} /\ ~cycle'.wrote) => wmfile' = wmfile]_vars

\* C19 as stated: a cycle whose source query fails writes no artifact and
\* leaves the stored watermark as it is, and a later cycle that reaches
\* the source detects every change the failed cycle would have returned.
C19_FailedDetectionRetried ==
    [][ExtractStep =>
          /\ cycle'.dbfail => (logs' = logs /\ wmfile' = wmfile)
          /\ ~cycle'.dbfail =>
                \A e \in owed : e[1] \in cycle'.detected]_vars

\* C19 corrected: a cycle whose source query fails writes no artifact and
\* leaves the watermark file as it is; when the failed cycle read its
\* watermark from the file, the next cycle that reaches the source and
\* reads the file detects every row the failed cycle would have returned
\* and that is still in the source table.
C19_FailedDetectionRetriedFromStored ==
    [][ExtractStep =>
          /\ cycle'.dbfail => (logs' = logs /\ wmfile' = wmfile)
          /\ (~cycle'.dbfail /\ cycle'.from = "file") =>
                \A e \in owed :
                    (e[2] = "file" /\ orders[e[1]].status = "present")
                        => e[1] \in cycle'.detected]_vars

\* A cycle that read the stored watermark has detected a row that a failed
\* cycle before it would have returned.
C19_Witness ==
    /\ cycle.from = "file"
    /\ ~cycle.dbfail
    /\ cycle.recovered # {}
    /\ cycle.wrote

\* C24: a read of the watermark, whenever it happens relative to a write
\* (also after a write that was cut short), finds the value stored before
\* or the new value, never an empty or partial text.
C24_ReadNeverFindsPartialWatermark ==
    [][ExtractStep => wmfile.kind # "garbled"]_vars

----------------------------------------------------------------------------
(* Ledger and retry                                                        *)

\* The artifacts in the log directory whose name is on no ledger line.
Unrecorded ==
    {f \in DOMAIN files : files[f].present /\ \A line \in ledger : line[1] # f}

----------------------------------------------------------------------------
(* Startup                                                                 *)

\* What the retry budget allows for a component: at most MaxRetries
\* attempts, a sleep after every failed attempt but the last, and no end
\* other than a connection or, after MaxRetries failures, the fatal
\* OperationalError.
WithinRetryBudget(c) ==
    /\ conn[c].attempt <= MaxRetries
    /\ conn[c].status \in {"starting", "connected", "fatal"}
    /\ conn[c].status = "starting" => conn[c].attempt < MaxRetries
    /\ conn[c].status = "fatal" => conn[c].attempt = MaxRetries
    /\ conn[c].status = "connected" => conn[c].slept = conn[c].attempt - 1
    /\ conn[c].status = "starting" => conn[c].slept = conn[c].attempt

\* C30: the extractor and the SCD2 loader attempt the connection at most
\* five times at startup, go on normally when attempt k <= 5 succeeds after
\* k - 1 failures, and raise the connectivity error only after five
\* failures in a row.
C30_RetryBudget ==
    WithinRetryBudget("extractor") /\ WithinRetryBudget("loader")

----------------------------------------------------------------------------
(* Batches with changes for several orders                                 *)

\* The turn of the loop of _process_batch_file at which
\* _process_change_record answers False for the order at the head.
FailedChange ==
    /\ pc = "batch"
    /\ queue # <<>>
    /\ pc' = "run"
    /\ failedBatches' = failedBatches + 1

\* C21: an error inside the transition for one order undoes only that
\* transition: what the batch has applied for other orders before, a plain
\* insertion or a closed row with its successor, is in the committed table
\* after the batch failed.
C21_EarlierKeysSurviveFailure ==
    [][FailedChange =>
          \A r \in work : r.order_key # Head(queue).id => r \in table']_vars

\* The turn of that loop for a record whose operation_type is none of
\* INSERT, UPDATE, DELETE.
UnknownOperation ==
    /\ pc = "batch"
    /\ queue # <<>>
    /\ queue' # queue
    /\ Head(queue).operation_type \notin Ops

\* C26: a record with an unknown operation type is skipped and counted as
\* failed on its own: the batch goes on with the next order and what it
\* applied for the other orders stays applied.
C26_BadRecordSkippedAlone ==
    [][UnknownOperation =>
          /\ pc' = "batch"
          /\ queue' = Tail(queue)
          /\ failedBatches' = failedBatches
          /\ work' = work]_vars

----------------------------------------------------------------------------
(* The ledger as the loader finds it                                       *)

\* The ledger holds a line that is not of the form name|identity.
LedgerCorrupted == \E line \in ledger : Len(line) < 2

\* _process_batch_file returns before its transaction for an artifact that
\* json.load can read and that holds changes.
EndsAtLookup ==
    /\ pc = "run"
    /\ todo # <<>>
    /\ ~shutdown
    /\ files[Head(todo)].present
    /\ ~files[Head(todo)].partial
    /\ files[Head(todo)].changes # <<>>
    /\ pc' = "run"
    /\ todo' = Tail(todo)

\* C28: with a ledger line that is not of the form name|identity the
\* loader treats every discovered artifact as not yet applied and attempts
\* it, and the state of the ledger never by itself makes a batch fail.
C28_CorruptedLedgerMeansNothingProcessed ==
    [][/\ (pc = "idle" /\ pc' = "run" /\ LedgerCorrupted) =>
              \A f \in DOMAIN files :
                  files[f].present => \E i \in DOMAIN todo' : todo'[i] = f
       /\ EndsAtLookup => failedBatches' = failedBatches]_vars

----------------------------------------------------------------------------
(* Artifacts under construction                                            *)

\* The loader opens the artifact at the head of its list and json.load
\* reads what the file holds at that moment.
ReadsArtifact ==
    /\ pc = "run"
    /\ todo # <<>>
    /\ ~shutdown
    /\ files[Head(todo)].present
    /\ todo' = Tail(todo) \/ pc' = "batch"

\* C23: a loader that lists the directory while the extractor writes a
\* batch never reads an artifact with only part of its content.
C23_NoPartialArtifactRead ==
    [][ReadsArtifact => ~files[Head(todo)].partial]_vars

----------------------------------------------------------------------------
(* Shutdown signals                                                        *)

\* The loader at a signal: with should_shutdown set it opens no further
\* batch, and a batch in progress leaves the loop of _process_batch_file
\* only rolled back and counted as failed, or committed.
StopsAtBatchBoundary ==
    /\ (shutdown /\ pc = "run") => pc' # "batch"
    /\ (pc = "batch" /\ pc' # "batch") =>
          /\ todo' = Tail(todo)
          /\ work' = table'
          /\ failedBatches' = failedBatches + 1 \/ curFile \in applied'

\* C25: a shutdown signal takes effect only between cycles or between
\* batches: the loader finishes the batch in progress and starts no
\* further one, and the extractor is never stopped between writing an
\* artifact and advancing the watermark.
C25_SignalOnlyAtBoundaries ==
    [][/\ StopsAtBatchBoundary
       /\ ~(cycle'.wrote /\ cycle'.saved = "stopped")]_vars

----------------------------------------------------------------------------
(* Failed batches within a load run                                        *)

\* C27: an artifact that is malformed or whose application fails gets no
\* ledger line from the loader, and the run goes on: the artifacts still on
\* the run's list stay on it, each leaves the list only by being attempted
\* (or all at once when a shutdown signal was seen), and the run ends only
\* with the list empty.
C27_FailedBatchContained ==
    [][/\ failedBatches' = failedBatches + 1 =>
              (ledger' = ledger /\ pc' = "run" /\ todo' = Tail(todo))
       /\ (pc # "idle" /\ todo' # todo) => (shutdown \/ todo' = Tail(todo))
       /\ (pc = "run" /\ pc' = "idle") => todo = <<>>]_vars

\* After the first artifact of a run failed, the run has opened the batch
\* of the second; the ledger has no line for the first.
C27_Witness ==
    /\ pc = "batch"
    /\ curFile = 2
    /\ failedBatches = 1
    /\ \A line \in ledger : line[1] # 1

----------------------------------------------------------------------------
(* The same source rows captured twice                                     *)

\* Artifact 2 holds the rows of artifact 1 as a later cycle captured them
\* again, and the loader has recorded the application of artifact f.
Recorded(f) ==
    /\ files[1].present
    /\ files[2].present
    /\ <<f, GenerateBatchId(files[f].changes)>> \in ledger

\* The rows the two artifacts have put into the table.
RowsOfCapture ==
    {r \in table : r.batch_id = GenerateBatchId(files[1].changes)}

----------------------------------------------------------------------------
(* Two loaders on one order                                                *)

\* The committed table after the changes first and second were applied one
\* after the other, each as a batch of its own, by the loader alone.
RECURSIVE SerialResult(_, _, _)
SerialResult(rows, n, changes) ==
    IF changes = <<>> THEN rows
    ELSE LET c == Head(changes)
             r == ProcessChangeRecord(Session(rows, rows, FALSE, n), c,
                                      GenerateBatchId(<<c>>), "none", driver)
             e == IF r.ok THEN Commit(r.s, FALSE).s ELSE Rollback(r.s)
         IN  SerialResult(e.table, e.seq, Tail(changes))

\* The committed table is what one of the two serial orders yields; rows
\* are compared without the surrogate key, which tells the order of the
\* inserts.
AsSerial ==
    LET c == [i \in Instances |-> loaders[i].change]
        start == loaders[1].start
        n == Cardinality(start)
        Plain(rows) == {[r EXCEPT !.surrogate_key = 0] : r \in rows}
    IN  \/ Plain(table) = Plain(SerialResult(start, n, <<c[1], c[2]>>))
        \/ Plain(table) = Plain(SerialResult(start, n, <<c[2], c[1]>>))

\* C22: when two loader instances apply changes to the same order at the
\* same time, under every interleaving of their statements and commits the
\* committed table never holds two current rows for the order, and what is
\* committed when both are through is the result of running the two
\* transitions one after the other in some order, also when the order had
\* no current row at the start.
C22_ConcurrentAsSerial ==
    /\ \A r1, r2 \in table :
          (r1.order_key = r2.order_key /\ r1.is_current /\ r2.is_current)
              => r1 = r2
    /\ (\A i \in Instances : loaders[i].pc = "done") => AsSerial

----------------------------------------------------------------------------
(* All or nothing per batch                                                *)

\* Between two batches, with no artifact recorded as applied since the
\* table last changed: every batch so far that changed the table has
\* failed. The table at the start is empty or holds the first version of
\* order 1, which alone has valid_from 1.
OnlyFailedBatches ==
    /\ pc # "batch"
    /\ applied = {}
    /\ table # {r \in {FirstVersion} :
                   \E x \in table : x.surrogate_key = r.surrogate_key
                                        /\ x.valid_from = r.valid_from}

\* C38: a batch that fails leaves dim_orders_history exactly as it was
\* before the batch started, wherever the failing order stands in the
\* batch and whatever the orders before it carried.
C38_FailedBatchLeavesTable == ~OnlyFailedBatches

----------------------------------------------------------------------------
(* Retention                                                               *)

\* C37: the retention cleanup of the extractor never deletes an artifact
\* that the loader has not yet recorded as applied: an artifact leaves the
\* log directory only when a ledger line carries its name and the identity
\* of its content.
C37_CleanupOnlyAfterRecorded ==
    [][\A f \in DOMAIN files :
          files[f].present /\ ~files'[f].present
              => <<f, GenerateBatchId(files[f].changes)>> \in ledger]_vars

----------------------------------------------------------------------------
(* The two readers of the ledger                                           *)

\* An artifact name that is used again with other content: the one artifact
\* of the log directory holds order 1, or orders 1 and 2, or an UPDATE of
\* order 1 that changes total_amount and nothing else; it is applied,
\* removed and presented again under its old name or a new one.
NextOverwrite ==
    \/ \E fresh \in BOOLEAN,
           b \in {<<ChangeRecord(1, "INSERT", 1, 1, TRUE, FALSE)>>,
                  DirArtifact([i \in DirKeys |-> "INSERT"], 2),
                  <<[ChangeRecord(1, "UPDATE", 1, 2, TRUE, FALSE)
                        EXCEPT !.total_amount = 20]>>} :
          WriteArtifact(1, b, fresh)
    \/ CleanupOldLogs(1)
    \/ \E ioerror \in BOOLEAN : StartRun(ioerror)
    \/ \E ioerror \in BOOLEAN : OpenBatch(ioerror)
    \/ ProcessChange
    \/ CommitBatch
    \/ EndRun

SpecOverwrite == Init /\ [][NextOverwrite]_vars

\* C34: load_change_logs and _process_batch_file agree on what is already
\* applied: load_change_logs leaves an artifact out of its unprocessed
\* files exactly when _process_batch_file finds it in the ledger, so an
\* artifact whose name is recorded with another content identity than that
\* of its present content is among the unprocessed files of the next run.
C34_LedgerReadersAgree ==
    \A f \in DOMAIN files :
        files[f].present
            => (f \notin Unrecorded
                   <=> LedgerLookup(ledger, FALSE, f,
                                    GenerateBatchId(files[f].changes))
                           = {"processed"})

----------------------------------------------------------------------------
(* Order of application                                                    *)

\* C35: artifacts are applied in capture order: the loader commits no
\* change of an artifact to the table while an artifact with a smaller
\* name is in the log directory and on no ledger line.
C35_AppliedInCaptureOrder ==
    [][pc = "batch" /\ table' # table
          => \A g \in Unrecorded : ~(g < curFile)]_vars

----------------------------------------------------------------------------
(* Detection of a changed order                                            *)

\* C33: for an order with a current version an UPDATE is a no-operation
\* only if every attribute of the record equals that of the current
\* version: customer_id, product_id, quantity, unit_price, total_amount,
\* order_status and order_date; a difference in one attribute, total_amount
\* alone included, produces a new version.
C33_NoOpOnlyIfAllEqual ==
    [][/\ pc = "batch"
       /\ queue # <<>>
       /\ queue' = Tail(queue)
       /\ work' = work
       => LET change == Head(queue)
          IN  change.operation_type = "UPDATE"
                  => \A rec \in CurrentRows(work, change.id) :
                        /\ rec.customer_id = change.customer_id
                        /\ rec.product_id = change.product_id
                        /\ rec.quantity = change.quantity
                        /\ rec.unit_price = change.unit_price
                        /\ rec.total_amount = change.total_amount
                        /\ rec.order_status = change.order_status
                        /\ rec.order_date = change.order_date.d]_vars

----------------------------------------------------------------------------
(* Reclassification of an operation that does not match its order          *)

\* C32: an operation that does not match the state of its order is
\* reclassified, not rejected. An UPDATE for an order without current row
\* inserts a new current version (valid_from the capture timestamp,
\* valid_to NULL) exactly as an INSERT would. An INSERT for an order with a
\* current row is a no-operation when its capture timestamp equals the
\* current row's cdc_timestamp and that row's operation is INSERT, and is
\* otherwise applied exactly as an UPDATE.
C32_MismatchReclassified ==
    pc = "batch" /\ queue # <<>> /\ ~txfailed
        => LET change == Head(queue)
               cur == CurrentRows(work, change.id)
               ts == ToTimestamp(FromIsoFormat(change.cdc_timestamp))
               r == ProcessChangeRecord(Sess, change, batchId, "none", driver)
           IN  /\ change.operation_type = "UPDATE" /\ cur = {}
                   => /\ r = ProcessInsertChange(Sess, change, batchId,
                                                 "none", driver)
                      /\ r.ok
                      /\ r.s.work
                            = work \cup {NewRow(seq + 1, change, ts, batchId)}
               /\ change.operation_type = "INSERT"
                   => \A rec \in cur :
                         IF rec.cdc_timestamp = ts
                            /\ rec.cdc_operation = "INSERT"
                         THEN r = Result(Sess, TRUE)
                         ELSE r = ProcessUpdateChange(Sess, change, batchId,
                                                      "none", driver)

----------------------------------------------------------------------------
(* Termination of the reclassification                                     *)

\* C39: the mutual reclassification between _process_insert_change and
\* _process_update_change terminates: whatever the state of the order, the
\* operation, a database error at any read of the current row and the
\* commits of another loader between the reads, one change record makes at
\* most four calls of the two functions.
C39_ReclassificationBounded ==
    \A i \in Instances : loaders[i].calls <= 4

\* An instance has gone from _process_update_change to
\* _process_insert_change, back, and to _process_insert_change again, and
\* its change record has returned.
C39_Witness ==
    \E i \in Instances : loaders[i].calls = 4 /\ loaders[i].pc = "done"

----------------------------------------------------------------------------
(* No change lost by the extractor                                         *)

\* C36: no change is lost by the extractor: the stored watermark never
\* moves past a modification that no complete artifact contains, so every
\* version of a source row at or before the watermark, unless the row was
\* modified again or deleted, is in an artifact.
C36_WatermarkNeverPassesUncaptured ==
    wmfile.kind = "text"
        => \A id \in OrderIds :
              (orders[id].status = "present"
                  /\ orders[id].last_updated <= wmfile.text.t)
                  => <<id, orders[id].last_updated>> \in logs

----------------------------------------------------------------------------
(* The record of a load run in pipeline_metadata                           *)

\* C31: every load run is recorded with status 'running' at its start and,
\* when it finishes, with one final status and an end time: 'completed' if
\* no batch failed, 'completed_with_errors' if at least one batch failed; a
\* finished run is never left recorded as 'running'.
C31_RunRecordedWithFinalStatus ==
    [][/\ (pc = "idle" /\ pc' = "run")
           => metadata' = [status |-> "running", ended |-> FALSE]
       /\ (pc = "run" /\ pc' = "idle")
           => metadata' = [status |-> RunStatus, ended |-> TRUE]
       /\ (pc = "idle" /\ pc' = "idle" /\ metadata' # metadata)
           => metadata' = [status |-> "completed", ended |-> TRUE]]_vars

----------------------------------------------------------------------------
(* ChangeProcessor and orders_dim                                          *)

\* ChangeProcessor alone on the log directory: artifacts of one or two
\* records for order 1 arrive, are applied to orders_dim and removed.
NextProcessor ==
    \/ \E fresh \in BOOLEAN :
          LET records == {ChangeRecord(1, op, t, t, TRUE, FALSE) :
                             op \in Ops, t \in 1..MaxTime}
          IN  \E b \in {<<c>> : c \in records}
                          \cup {<<c, d>> : c \in records, d \in records} :
                 WriteArtifact(1, b, fresh)
    \/ CleanupOldLogs(1)
    \/ ChangeProcessorMarks(1)

SpecProcessor == Init /\ [][NextProcessor]_vars

\* C40: ChangeProcessor.process_cdc_logs keeps at most one current row per
\* order_key in orders_dim after any sequence of batches, an INSERT for an
\* order that has a current row and several records for one order in one
\* batch included.
C40_OneCurrentRowInOrdersDim ==
    \A r1, r2 \in orders_dim :
        (r1.order_key = r2.order_key /\ r1.is_current /\ r2.is_current)
            => r1 = r2

====
